---- MODULE Spec2Model ----
(***************************************************************************)
(* Model of the rule application engine of the ScreenAssign backend:       *)
(* monitor identity (MonitorFingerprint, ConfigManager), connection state  *)
(* (MonitorManager), screen matching (LayoutMatcher), the single active    *)
(* layout slot (LayoutManager), the per-window state machine and the rule  *)
(* pass (WindowManager), and the two callers of the rule pass (the service *)
(* loop thread and the API thread, ScreenAssignService).                   *)
(*                                                                         *)
(* Python values are modelled as follows.  None / Optional[x] is a         *)
(* sequence of length 0 / 1.  A dict is a function; a dict whose insertion *)
(* order the code depends on is a sequence of entries.  A str is a         *)
(* sequence of one-character strings.  uuid4 is a fresh counter.           *)
(***************************************************************************)
EXTENDS Integers, Sequences, FiniteSets, TLC

VARIABLES
    os_monitors,         \* what screeninfo.get_monitors() would return now (environment)
    known_monitors,      \* ConfigManager.config["known_monitors"]
    id_counter,          \* number of monitor ids handed out so far (uuid4 freshness)
    connected_monitors,  \* MonitorManager.connected_monitors, in dict insertion order
    active_layout,       \* LayoutManager.active_layout
    windows,             \* the top-level windows of the desktop (environment)
    foreground,          \* the window holding input focus, 0 if none (environment)
    last,                \* the most recent call: operation, arguments, pre-state, result, OS calls
    pass,                \* per thread: the position inside WindowManager.apply_rules
    service,             \* ScreenAssignService: running, status, the loop threads started
    layout_files,        \* the layouts directory: file name -> content (disk)
    loop,                \* the thread in _service_loop: position, timers, last duty
    config_file          \* the monitors in the config file, ConfigManager._last_saved_json

vars == <<os_monitors, known_monitors, id_counter, connected_monitors,
          active_layout, windows, foreground, last, pass, service, layout_files, loop,
          config_file>>

----------------------------------------------------------------------------
(* Optional values *)

NONE == <<>>

Some(x) == <<x>>

IsNone(o) == Len(o) = 0

Val(o) == o[1]

Range(s) == {s[i] : i \in 1..Len(s)}

----------------------------------------------------------------------------
(* Strings: sequences of one-character strings *)

UpperToLower ==
    [A |-> "a", B |-> "b", C |-> "c", D |-> "d", E |-> "e", F |-> "f", G |-> "g", H |-> "h",
     I |-> "i", J |-> "j", K |-> "k", L |-> "l", M |-> "m", N |-> "n", O |-> "o", P |-> "p",
     Q |-> "q", R |-> "r", S |-> "s", T |-> "t", U |-> "u", V |-> "v", W |-> "w", X |-> "x",
     Y |-> "y", Z |-> "z"]

\* str.lower()
Lower(s) ==
    [i \in 1..Len(s) |-> IF s[i] \in DOMAIN UpperToLower THEN UpperToLower[s[i]] ELSE s[i]]

RECURSIVE LStrip(_)
LStrip(s) == IF Len(s) > 0 /\ s[1] = " " THEN LStrip(Tail(s)) ELSE s

RECURSIVE RStrip(_)
RStrip(s) ==
    IF Len(s) > 0 /\ s[Len(s)] = " " THEN RStrip(SubSeq(s, 1, Len(s) - 1)) ELSE s

\* str.strip()
Strip(s) == RStrip(LStrip(s))

\* str.endswith(suffix)
EndsWith(s, suffix) ==
    /\ Len(s) >= Len(suffix)
    /\ SubSeq(s, Len(s) - Len(suffix) + 1, Len(s)) = suffix

\* needle in hay
Contains(hay, needle) ==
    \E i \in 0..(Len(hay) - Len(needle)) : SubSeq(hay, i + 1, i + Len(needle)) = needle

DotExe == <<".", "e", "x", "e">>

\* normalize_exe_name that lowercases and adds no suffix
normalize_exe_name_nosuffix(exe_name) ==
    Lower(Strip(exe_name))

\* layout_manager.normalize_exe_name and window_manager._norm_exe (same body)
normalize_exe_name(exe_name) ==
    LET s == Lower(Strip(exe_name))
    IN  IF EndsWith(s, DotExe) THEN s
        ELSE IF Len(s) > 0 THEN s \o DotExe ELSE s

----------------------------------------------------------------------------
(* MonitorFingerprint *)

\* re.search(r"DISPLAY(\d+)", name) found nothing
NoDisplay == -1

\* A monitor name is "<os name> (WxH)"; all the code ever reads from it is the
\* DISPLAY number, so the name is modelled by that number (NoDisplay if absent).

\* _generate_resolution_fp: "{width}x{height}"
generate_resolution_fp(monitor_data) ==
    [w |-> monitor_data.width, h |-> monitor_data.height]

\* _generate_connector_resolution_fp: "DISPLAY{n}_{width}x{height}", else resolution only
\* (with connector = NoDisplay the value stands for the bare resolution string)
generate_connector_resolution_fp(monitor_data) ==
    [connector |-> monitor_data.name, w |-> monitor_data.width, h |-> monitor_data.height]

generate_fingerprint(monitor_data) ==
    [primary   |-> generate_connector_resolution_fp(monitor_data),
     secondary |-> generate_resolution_fp(monitor_data)]

\* fingerprints_match that falls back to the secondary under strict too
fingerprints_match_lenient(fp1, fp2, strict) ==
    IF fp1.primary = fp2.primary
    THEN [is_match |-> TRUE, reason |-> "connector_and_resolution_match"]
    ELSE IF fp1.secondary = fp2.secondary
    THEN [is_match |-> TRUE, reason |-> "resolution_match"]
    ELSE [is_match |-> FALSE, reason |-> "no_match"]

\* MonitorFingerprint.fingerprints_match(fp1, fp2, strict): (is_match, reason)
fingerprints_match(fp1, fp2, strict) ==
    IF fp1.primary = fp2.primary
    THEN [is_match |-> TRUE, reason |-> "connector_and_resolution_match"]
    ELSE IF strict
    THEN [is_match |-> FALSE, reason |-> "primary_mismatch_strict"]
    ELSE IF fp1.secondary = fp2.secondary
    THEN [is_match |-> TRUE, reason |-> "resolution_match"]
    ELSE [is_match |-> FALSE, reason |-> "no_match"]

----------------------------------------------------------------------------
(* ConfigManager: monitor identity resolution *)

\* index of the first known monitor whose fingerprint matches, 0 if none
\* (the for loop of add_monitor returns at the first match)
FirstMatch(known, fingerprints) ==
    LET hits == {i \in 1..Len(known) :
                    fingerprints_match(fingerprints, known[i].fingerprints, FALSE).is_match}
    IN  IF hits = {} THEN 0 ELSE CHOOSE i \in hits : \A j \in hits : i <= j

\* add_monitor that gives a matched monitor a new record under a new id
add_monitor_reassign(known, counter, monitor_data) ==
    LET Resolve(fingerprints, i) ==
            [known   |-> IF i # 0
                         THEN [known EXCEPT ![i] =
                                  [id |-> counter + 1,
                                   name |-> monitor_data.name,
                                   width |-> monitor_data.width,
                                   height |-> monitor_data.height,
                                   x |-> monitor_data.x,
                                   y |-> monitor_data.y,
                                   fingerprints |-> fingerprints]]
                         ELSE Append(known,
                                     [id |-> counter + 1,
                                      name |-> monitor_data.name,
                                      width |-> monitor_data.width,
                                      height |-> monitor_data.height,
                                      x |-> monitor_data.x,
                                      y |-> monitor_data.y,
                                      fingerprints |-> fingerprints]),
             counter |-> counter + 1,
             id      |-> counter + 1]
    IN  Resolve(generate_fingerprint(monitor_data),
                FirstMatch(known, generate_fingerprint(monitor_data)))

\* add_monitor(monitor_data): [known, counter, id] after the call
add_monitor(known, counter, monitor_data) ==
    LET Resolve(fingerprints, i) ==
            IF i # 0
            THEN [known   |-> [known EXCEPT ![i].x = monitor_data.x,
                                            ![i].y = monitor_data.y,
                                            ![i].name = monitor_data.name,
                                            ![i].fingerprints = fingerprints],
                  counter |-> counter,
                  id      |-> known[i].id]
            ELSE [known   |-> Append(known,
                                     [id |-> counter + 1,
                                      name |-> monitor_data.name,
                                      width |-> monitor_data.width,
                                      height |-> monitor_data.height,
                                      x |-> monitor_data.x,
                                      y |-> monitor_data.y,
                                      fingerprints |-> fingerprints]),
                  counter |-> counter + 1,
                  id      |-> counter + 1]
    IN  Resolve(generate_fingerprint(monitor_data),
                FirstMatch(known, generate_fingerprint(monitor_data)))

\* delete_monitor(monitor_id): the list without the first record of that id,
\* and whether there was one
RECURSIVE delete_monitor(_, _)
delete_monitor(known, monitor_id) ==
    IF Len(known) = 0 THEN [known |-> <<>>, returned |-> FALSE]
    ELSE IF known[1].id = monitor_id THEN [known |-> Tail(known), returned |-> TRUE]
    ELSE LET Keep(rest) ==
                 [known |-> <<known[1]>> \o rest.known, returned |-> rest.returned]
         IN  Keep(delete_monitor(Tail(known), monitor_id))

\* the config file and the snapshot after a save of config
ConfigSaved(config) == [disk |-> config, last_saved |-> Some(config)]

\* the config file and the snapshot after load_config read config from it
ConfigLoaded(config) == [disk |-> config, last_saved |-> NONE]

\* save_config(): the file and the snapshot after the call, and whether the
\* file was written
save_config(file, config) ==
    IF file.last_saved = Some(config) THEN [file |-> file, wrote |-> FALSE]
    ELSE IF file.disk = config
    THEN [file |-> [file EXCEPT !.last_saved = Some(config)], wrote |-> FALSE]
    ELSE [file |-> ConfigSaved(config), wrote |-> TRUE]

\* the file and the snapshot after a handler that left config in memory and
\* called save_config at its end if saved
SavedIf(saved, file, config) ==
    IF saved THEN save_config(file, config).file ELSE file

\* get_monitor(monitor_id): Optional record
get_monitor(known, monitor_id) ==
    LET hits == {i \in 1..Len(known) : known[i].id = monitor_id}
    IN  IF hits = {} THEN NONE
        ELSE Some(known[CHOOSE i \in hits : \A j \in hits : i <= j])

----------------------------------------------------------------------------
(* MonitorManager *)

ConnectedIds(connected) == {connected[i].id : i \in 1..Len(connected)}

\* get_connected_monitor_ids(): list(self.connected_monitors.keys())
get_connected_monitor_ids(connected) == [i \in 1..Len(connected) |-> connected[i].id]

\* is_monitor_connected that takes every monitor for connected
is_monitor_connected_any(connected, monitor_id) == monitor_id = monitor_id

\* is_monitor_connected(monitor_id)
is_monitor_connected(connected, monitor_id) == monitor_id \in ConnectedIds(connected)

\* get_connected_monitor(monitor_id): Optional monitor object
get_connected_monitor(connected, monitor_id) ==
    LET hits == {i \in 1..Len(connected) : connected[i].id = monitor_id}
    IN  IF hits = {} THEN NONE ELSE Some(connected[CHOOSE i \in hits : TRUE].monitor)

\* self.connected_monitors[monitor_id] = monitor
DictSet(connected, monitor_id, monitor) ==
    IF monitor_id \in ConnectedIds(connected)
    THEN [i \in 1..Len(connected) |->
            IF connected[i].id = monitor_id
            THEN [id |-> monitor_id, monitor |-> monitor] ELSE connected[i]]
    ELSE Append(connected, [id |-> monitor_id, monitor |-> monitor])

\* del self.connected_monitors[id] for every id in gone
RECURSIVE DictDel(_, _)
DictDel(connected, gone) ==
    IF Len(connected) = 0 THEN <<>>
    ELSE IF connected[1].id \in gone THEN DictDel(Tail(connected), gone)
    ELSE <<connected[1]>> \o DictDel(Tail(connected), gone)

\* the first loop of detect_monitors over the monitors the OS reports
RECURSIVE DetectLoop(_, _, _, _, _)
DetectLoop(monitors, known, counter, connected, detected_ids) ==
    IF Len(monitors) = 0
    THEN [known |-> known, counter |-> counter, connected |-> connected,
          detected_ids |-> detected_ids]
    ELSE LET Register(monitor, r) ==
                 DetectLoop(Tail(monitors), r.known, r.counter,
                            DictSet(connected, r.id, monitor),
                            Append(detected_ids, r.id))
         IN  Register(monitors[1], add_monitor(known, counter, monitors[1]))

\* detect_monitors(): state after the call and the list it returns
detect_monitors(monitors, known, counter, connected) ==
    LET Disconnect(r) ==
            [known |-> r.known, counter |-> r.counter,
             connected |->
                 DictDel(r.connected,
                         {r.known[i].id : i \in 1..Len(r.known)} \ Range(r.detected_ids)),
             detected_ids |-> r.detected_ids]
    IN  Disconnect(DetectLoop(monitors, known, counter, connected, <<>>))

\* get_monitor_by_position(x, y): the first connected monitor containing the point
get_monitor_by_position(connected, x, y) ==
    LET hits == {i \in 1..Len(connected) :
                    LET m == connected[i].monitor
                    IN  /\ m.x <= x /\ x < m.x + m.width
                        /\ m.y <= y /\ y < m.y + m.height}
    IN  IF hits = {} THEN NONE
        ELSE Some(connected[CHOOSE i \in hits : \A j \in hits : i <= j].id)

----------------------------------------------------------------------------
(* LayoutMatcher *)

\* extract_display_number(monitor["name"]): Optional int
extract_display_number(name) == IF name = NoDisplay THEN NONE ELSE Some(name)

get_orientation(width, height) == IF width > height THEN "horizontal" ELSE "vertical"

\* list.sort(key=display_number): stable insertion into a sorted list
RECURSIVE InsertSorted(_, _)
InsertSorted(sorted, c) ==
    IF Len(sorted) = 0 THEN <<c>>
    ELSE IF c.display_number < sorted[1].display_number THEN <<c>> \o sorted
    ELSE <<sorted[1]>> \o InsertSorted(Tail(sorted), c)

RECURSIVE SortByDisplay(_, _)
SortByDisplay(configs, acc) ==
    IF Len(configs) = 0 THEN acc
    ELSE SortByDisplay(Tail(configs), InsertSorted(acc, configs[1]))

RECURSIVE CollectConfigs(_, _)
CollectConfigs(ids, known) ==
    IF Len(ids) = 0 THEN <<>>
    ELSE LET Collect(monitor, rest) ==
                 IF IsNone(monitor) THEN rest
                 ELSE IF IsNone(extract_display_number(Val(monitor).name)) THEN rest
                 ELSE <<[display_number |-> Val(extract_display_number(Val(monitor).name)),
                         orientation |->
                             get_orientation(Val(monitor).width, Val(monitor).height),
                         monitor_id |-> ids[1],
                         width |-> Val(monitor).width,
                         height |-> Val(monitor).height]>> \o rest
         IN  Collect(get_monitor(known, ids[1]), CollectConfigs(Tail(ids), known))

\* get_screen_configuration()
get_screen_configuration(connected, known) ==
    SortByDisplay(CollectConfigs(get_connected_monitor_ids(connected), known), <<>>)

\* next((s for s in current_config if s["display_number"] == n), None)
FindScreen(current_config, n) ==
    LET hits == {i \in 1..Len(current_config) : current_config[i].display_number = n}
    IN  IF hits = {} THEN NONE
        ELSE Some(current_config[CHOOSE i \in hits : \A j \in hits : i <= j])

\* the loop of matches_requirements over the required screens, from index i
RECURSIVE CheckScreens(_, _, _)
CheckScreens(current_config, required_screens, i) ==
    IF i > Len(required_screens)
    THEN [matches |-> TRUE, reason |-> "all_met", display |-> NoDisplay]
    ELSE LET Check(req, cur) ==
                 IF IsNone(cur)
                 THEN [matches |-> FALSE, reason |-> "not_found",
                       display |-> req.display_number]
                 ELSE IF Val(cur).orientation # req.orientation
                 THEN [matches |-> FALSE, reason |-> "orientation",
                       display |-> req.display_number]
                 ELSE CheckScreens(current_config, required_screens, i + 1)
         IN  Check(required_screens[i],
                   FindScreen(current_config, required_screens[i].display_number))

\* matches_requirements that accepts more current screens than total_screens
matches_requirements_atleast(current_config, layout_requirements) ==
    IF /\ ~IsNone(layout_requirements.total_screens)
       /\ Len(current_config) < Val(layout_requirements.total_screens)
    THEN [matches |-> FALSE, reason |-> "count", display |-> NoDisplay]
    ELSE CheckScreens(current_config, layout_requirements.screens, 1)

\* matches_requirements(current_config, layout_requirements): (matches, reason)
matches_requirements(current_config, layout_requirements) ==
    IF /\ ~IsNone(layout_requirements.total_screens)
       /\ Len(current_config) # Val(layout_requirements.total_screens)
    THEN [matches |-> FALSE, reason |-> "count", display |-> NoDisplay]
    ELSE CheckScreens(current_config, layout_requirements.screens, 1)

\* build_display_map: {screen["display_number"]: screen["monitor_id"] for screen in config}
build_display_map(current_config) ==
    [n \in {current_config[i].display_number : i \in 1..Len(current_config)} |->
        LET hits == {i \in 1..Len(current_config) : current_config[i].display_number = n}
        IN  current_config[CHOOSE i \in hits : \A j \in hits : j <= i].monitor_id]

----------------------------------------------------------------------------
(* Layout files *)

DotJson == <<".", "j", "s", "o", "n">>

ChromeExe == <<"c", "h", "r", "o", "m", "e", ".", "e", "x", "e">>

ExplorerExe == <<"e", "x", "p", "l", "o", "r", "e", "r", ".", "e", "x", "e">>

TitleDoc == <<"d", "o", "c">>

Screen(n, o) == [display_number |-> n, orientation |-> o]

Rule(id, mt, mv, td, fs, mx) ==
    [rule_id |-> id, match_type |-> mt, match_value |-> mv, target_display |-> td,
     fullscreen |-> fs, maximize |-> mx]

TwoScreens ==
    [total_screens |-> Some(2), screens |-> <<Screen(1, "vertical"), Screen(2, "horizontal")>>]

\* the layouts directory: file name -> content.  "json" content is the parsed
\* document (a dict is a record that has exactly the keys of the document).
LayoutFiles ==
    [f \in {<<"a">> \o DotJson, <<"b">> \o DotJson, <<"c">> \o DotJson,
            <<"d">> \o DotJson, <<"e">> \o DotJson, <<"f">> \o DotJson,
            <<"h">> \o DotJson} |->
        CASE f = <<"a">> \o DotJson ->
               [kind |-> "json",
                data |-> [name |-> "Coding", screen_requirements |-> TwoScreens,
                          rules |-> <<Rule("r1", "exe", ChromeExe, 2, FALSE, TRUE)>>]]
          [] f = <<"b">> \o DotJson ->
               [kind |-> "json",
                data |-> [name |-> "Docs", screen_requirements |-> TwoScreens,
                          rules |-> <<Rule("r1", "exe", ChromeExe, 2, FALSE, TRUE),
                                      Rule("r2", "window_title", TitleDoc, 1, FALSE, FALSE)>>]]
          [] f = <<"c">> \o DotJson ->
               [kind |-> "json",
                data |-> [name |-> "Wide",
                          screen_requirements |->
                              [total_screens |-> NONE,
                               screens |-> <<Screen(2, "horizontal")>>],
                          rules |-> <<Rule("r1", "exe", ChromeExe, 2, TRUE, FALSE)>>]]
          [] f = <<"d">> \o DotJson -> [kind |-> "not_json"]
          [] f = <<"e">> \o DotJson ->
               [kind |-> "json",
                data |-> [name |-> "BadTarget", screen_requirements |-> TwoScreens,
                          rules |-> <<Rule("r1", "exe", ChromeExe, 3, FALSE, TRUE)>>]]
          [] f = <<"f">> \o DotJson ->
               [kind |-> "json",
                data |-> [name |-> "NoRules", screen_requirements |-> TwoScreens]]
          [] f = <<"h">> \o DotJson ->
               [kind |-> "json",
                data |-> [name |-> "Shell", screen_requirements |-> TwoScreens,
                          rules |-> <<Rule("r1", "exe", ExplorerExe, 2, FALSE, TRUE),
                                      Rule("r2", "exe", ChromeExe, 1, FALSE, TRUE)>>]]]

\* the layout names callers pass: with and without the extension, one missing
LayoutNames ==
    {<<"a">>, <<"a">> \o DotJson, <<"b">>, <<"c">>, <<"d">>, <<"e">>, <<"f">>, <<"g">>}

----------------------------------------------------------------------------
(* LayoutManager *)

\* the loop of validate_layout over screen_requirements.screens
ScreensValid(screens) ==
    \A i \in 1..Len(screens) :
        /\ "display_number" \in DOMAIN screens[i]
        /\ "orientation" \in DOMAIN screens[i]
        /\ screens[i].orientation \in {"horizontal", "vertical"}

\* the loop of validate_layout over rules
RulesValid(rules, screens) ==
    \A i \in 1..Len(rules) :
        /\ "match_type" \in DOMAIN rules[i]
        /\ "match_value" \in DOMAIN rules[i]
        /\ "target_display" \in DOMAIN rules[i]
        /\ rules[i].target_display \in {screens[j].display_number : j \in 1..Len(screens)}

\* validate_layout without the check of each rule's target_display against the
\* required screens
validate_layout_keys_only(layout_data) ==
    /\ "name" \in DOMAIN layout_data
    /\ "screen_requirements" \in DOMAIN layout_data
    /\ "rules" \in DOMAIN layout_data
    /\ "total_screens" \in DOMAIN layout_data.screen_requirements
    /\ "screens" \in DOMAIN layout_data.screen_requirements
    /\ ScreensValid(layout_data.screen_requirements.screens)

\* validate_layout that accepts any orientation of a required screen
validate_layout_any_orientation(layout_data) ==
    /\ "name" \in DOMAIN layout_data
    /\ "screen_requirements" \in DOMAIN layout_data
    /\ "rules" \in DOMAIN layout_data
    /\ "total_screens" \in DOMAIN layout_data.screen_requirements
    /\ "screens" \in DOMAIN layout_data.screen_requirements
    /\ \A i \in 1..Len(layout_data.screen_requirements.screens) :
           /\ "display_number" \in DOMAIN layout_data.screen_requirements.screens[i]
           /\ "orientation" \in DOMAIN layout_data.screen_requirements.screens[i]
    /\ RulesValid(layout_data.rules, layout_data.screen_requirements.screens)

\* validate_layout(layout_data): is_valid
validate_layout(layout_data) ==
    /\ "name" \in DOMAIN layout_data
    /\ "screen_requirements" \in DOMAIN layout_data
    /\ "rules" \in DOMAIN layout_data
    /\ "total_screens" \in DOMAIN layout_data.screen_requirements
    /\ "screens" \in DOMAIN layout_data.screen_requirements
    /\ ScreensValid(layout_data.screen_requirements.screens)
    /\ RulesValid(layout_data.rules, layout_data.screen_requirements.screens)

\* layout_name if it ends with ".json", else layout_name + ".json"
FileName(layout_name) ==
    IF EndsWith(layout_name, DotJson) THEN layout_name ELSE layout_name \o DotJson

\* load_layout(layout_name): the layout data, or the LayoutError raised
load_layout(layout_name) ==
    LET layout_path == FileName(layout_name)
    IN  IF layout_path \notin DOMAIN layout_files
        THEN [raised |-> TRUE, error |-> "not_found"]
        ELSE IF layout_files[layout_path].kind # "json"
        THEN [raised |-> TRUE, error |-> "invalid_json"]
        ELSE IF ~validate_layout(layout_files[layout_path].data)
        THEN [raised |-> TRUE, error |-> "invalid_layout"]
        ELSE [raised |-> FALSE, data |-> layout_files[layout_path].data]

\* can_apply_layout that accepts every screen configuration
can_apply_layout_any(layout_data, connected, known) ==
    CheckScreens(get_screen_configuration(connected, known), <<>>, 1)

\* can_apply_layout(layout_data)
can_apply_layout(layout_data, connected, known) ==
    matches_requirements(get_screen_configuration(connected, known),
                         layout_data.screen_requirements)

\* activate_layout past its first check: load, match, build the map, mark active
LoadAndActivate(active, layout_name, now, connected, known) ==
    LET Activate(loaded) ==
            IF loaded.raised
            THEN [active |-> active, raised |-> Some(loaded.error), returned |-> NONE]
            ELSE IF ~can_apply_layout(loaded.data, connected, known).matches
            THEN [active |-> active, raised |-> Some("requirements"), returned |-> NONE]
            ELSE [active |->
                     Some([name |-> loaded.data.name,
                           file_name |-> FileName(layout_name),
                           data |-> loaded.data,
                           display_map |->
                               build_display_map(get_screen_configuration(connected, known)),
                           activated_at |-> now]),
                  raised |-> NONE,
                  returned |-> Some([success |-> TRUE, message |-> "activated"])]
    IN  Activate(load_layout(layout_name))

\* activate_layout without the check that a layout is already active
activate_layout_unguarded(active, layout_name, now, connected, known) ==
    LoadAndActivate(active, layout_name, now, connected, known)

\* activate_layout(layout_name) at wall-clock time now:
\* the active-layout slot after the call, the value returned, the error raised
activate_layout(active, layout_name, now, connected, known) ==
    IF ~IsNone(active)
    THEN [active |-> active, raised |-> NONE,
          returned |-> Some([success |-> FALSE, message |-> "already_active"])]
    ELSE LoadAndActivate(active, layout_name, now, connected, known)

\* deactivate_layout that reports success whether or not a layout was active
deactivate_layout_always(active) ==
    [active |-> NONE,
     returned |-> [success |-> TRUE,
                   deactivated |-> IF IsNone(active) THEN NONE
                                   ELSE Some(Val(active).name)]]

\* deactivate_layout()
deactivate_layout(active) ==
    IF IsNone(active)
    THEN [active |-> active, returned |-> [success |-> FALSE, deactivated |-> NONE]]
    ELSE [active |-> NONE,
          returned |-> [success |-> TRUE, deactivated |-> Some(Val(active).name)]]

\* check_active_layout_validity that reports the mismatch but keeps the layout
check_active_layout_validity_keep(active, connected, known) ==
    IF IsNone(active) THEN [active |-> active, returned |-> TRUE]
    ELSE IF ~can_apply_layout(Val(active).data, connected, known).matches
    THEN [active |-> active, returned |-> FALSE]
    ELSE [active |-> active, returned |-> TRUE]

\* check_active_layout_validity that rebuilds the display map of a layout that
\* is still valid
check_active_layout_validity_remap(active, connected, known) ==
    IF IsNone(active) THEN [active |-> active, returned |-> TRUE]
    ELSE IF ~can_apply_layout(Val(active).data, connected, known).matches
    THEN [active |-> deactivate_layout(active).active, returned |-> FALSE]
    ELSE [active |-> Some([Val(active) EXCEPT !.display_map =
                              build_display_map(get_screen_configuration(connected, known))]),
          returned |-> TRUE]

\* check_active_layout_validity()
check_active_layout_validity(active, connected, known) ==
    IF IsNone(active) THEN [active |-> active, returned |-> TRUE]
    ELSE IF ~can_apply_layout(Val(active).data, connected, known).matches
    THEN [active |-> deactivate_layout(active).active, returned |-> FALSE]
    ELSE [active |-> active, returned |-> TRUE]

\* the loop of get_active_rules with "break" in place of "continue" at a rule
\* whose target_display is not in the display_map
RECURSIVE ResolveRules_stop(_, _, _)
ResolveRules_stop(rules, display_map, i) ==
    IF i > Len(rules) THEN <<>>
    ELSE LET layout_rule == rules[i]
             rest == ResolveRules_stop(rules, display_map, i + 1)
         IN  IF layout_rule.target_display = 0 THEN <<>>
             ELSE IF layout_rule.target_display \notin DOMAIN display_map THEN <<>>
             ELSE <<[rule_id |-> layout_rule.rule_id,
                     match_type |-> layout_rule.match_type,
                     match_value |-> layout_rule.match_value,
                     target_monitor_id |-> display_map[layout_rule.target_display],
                     fullscreen |-> layout_rule.fullscreen,
                     maximize |-> layout_rule.maximize]>> \o rest

\* the loop of get_active_rules over the stored rules, from index i
RECURSIVE ResolveRules(_, _, _)
ResolveRules(rules, display_map, i) ==
    IF i > Len(rules) THEN <<>>
    ELSE LET layout_rule == rules[i]
             rest == ResolveRules(rules, display_map, i + 1)
         IN  IF layout_rule.target_display = 0 THEN rest
             ELSE IF layout_rule.target_display \notin DOMAIN display_map THEN rest
             ELSE <<[rule_id |-> layout_rule.rule_id,
                     match_type |-> layout_rule.match_type,
                     match_value |-> layout_rule.match_value,
                     target_monitor_id |-> display_map[layout_rule.target_display],
                     fullscreen |-> layout_rule.fullscreen,
                     maximize |-> layout_rule.maximize]>> \o rest

\* get_active_rules()
get_active_rules(active) ==
    IF IsNone(active) THEN <<>>
    ELSE ResolveRules(Val(active).data.rules, Val(active).display_map, 1)

----------------------------------------------------------------------------
(* The desktop: the OS window surface the WindowManager drives.            *)
(* A window is [title, process_path, class_name, show, style, rect, f11,   *)
(* focusable, restore_exits_fs]: show is the show state of its placement,  *)
(* style its GWL_STYLE bits, rect = <<left, top, right, bottom>>; the last *)
(* three say how the application behaves: it honours the toggle key, it    *)
(* accepts foreground focus, it leaves fullscreen when restored.  elevated  *)
(* marks a window of a process of higher integrity: the OS lets this        *)
(* process read it and refuses to show or move it.                          *)
(* A desktop value D is [windows, foreground, oscalls]; oscalls lists the  *)
(* window operations issued so far.                                        *)

WS_CAPTION == 12582912

WS_THICKFRAME == 262144

\* the style of a window with its normal chrome, window_manager.py:743 (0x17CF0000)
StyleNormal == 399441920

\* style & mask, both non-negative (zero low-order bits of the mask are skipped
\* sixteen or four at a time)
RECURSIVE BitAnd(_, _)
BitAnd(a, b) ==
    IF a = 0 \/ b = 0 THEN 0
    ELSE IF b % 65536 = 0 THEN 65536 * BitAnd(a \div 65536, b \div 65536)
    ELSE IF b % 16 = 0 THEN 16 * BitAnd(a \div 16, b \div 16)
    ELSE (a % 2) * (b % 2) + 2 * BitAnd(a \div 2, b \div 2)

\* what an application does to its style on the toggle key: it drops or
\* puts back its caption and resize border (window_manager.py:745-753)
ToggledStyle(style) ==
    IF BitAnd(style, WS_CAPTION) = 0 /\ BitAnd(style, WS_THICKFRAME) = 0
    THEN style + WS_CAPTION + WS_THICKFRAME
    ELSE style - BitAnd(style, WS_CAPTION) - BitAnd(style, WS_THICKFRAME)

Log(D, call, hwnd, arg) ==
    [D EXCEPT !.oscalls = Append(@, [call |-> call, hwnd |-> hwnd, arg |-> arg])]

\* win32gui.ShowWindow(hwnd, cmd): the show state changes, the rectangle's centre
\* stays on the monitor it was on
ShowWindow(D, hwnd, cmd) ==
    LET w == D.windows[hwnd]
        shown == IF w.elevated THEN w
                 ELSE IF cmd = "SW_MAXIMIZE" THEN [w EXCEPT !.show = "maximized"]
                 ELSE IF w.restore_exits_fs /\ BitAnd(w.style, WS_CAPTION) = 0
                                            /\ BitAnd(w.style, WS_THICKFRAME) = 0
                 THEN [w EXCEPT !.show = "normal", !.style = ToggledStyle(w.style)]
                 ELSE [w EXCEPT !.show = "normal"]
    IN  Log([D EXCEPT !.windows[hwnd] = shown], "ShowWindow", hwnd, cmd)

\* win32gui.MoveWindow raises pywintypes.error (access denied)
MoveWindowRaises(D, hwnd) == D.windows[hwnd].elevated

\* win32gui.MoveWindow(hwnd, x, y, width, height, True)
MoveWindow(D, hwnd, x, y, width, height) ==
    Log(IF MoveWindowRaises(D, hwnd) THEN D
        ELSE [D EXCEPT !.windows[hwnd].rect = <<x, y, x + width, y + height>>],
        "MoveWindow", hwnd, <<x, y, width, height>>)

\* win32gui.SetForegroundWindow(hwnd): a refusal is caught by every caller
SetForegroundWindow(D, hwnd) ==
    Log(IF D.windows[hwnd].focusable THEN [D EXCEPT !.foreground = hwnd] ELSE D,
        "SetForegroundWindow", hwnd, "")

\* _press_key(VK_F11); _release_key(VK_F11): the key goes to the foreground window
SendF11(D) ==
    LET fg == D.foreground
    IN  Log(IF fg \in DOMAIN D.windows /\ D.windows[fg].f11
            THEN [D EXCEPT !.windows[fg].style = ToggledStyle(@)]
            ELSE D,
            "SendInput", fg, "VK_F11")

----------------------------------------------------------------------------
(* WindowManager: observation of a window *)

\* is_window_maximized(hwnd): placement[1] == SW_SHOWMAXIMIZED
is_window_maximized(D, hwnd) == D.windows[hwnd].show = "maximized"

\* is_window_fullscreen(hwnd): not has_caption and not has_border
is_window_fullscreen(D, hwnd) ==
    LET style == D.windows[hwnd].style
        has_caption == BitAnd(style, WS_CAPTION) # 0
        has_border == BitAnd(style, WS_THICKFRAME) # 0
    IN  ~has_caption /\ ~has_border

\* get_window_monitor_id(hwnd): the monitor containing the centre of the rectangle
get_window_monitor_id(D, connected, hwnd) ==
    LET rect == D.windows[hwnd].rect
    IN  get_monitor_by_position(connected, (rect[1] + rect[3]) \div 2,
                                (rect[2] + rect[4]) \div 2)

is_window_on_monitor(D, connected, hwnd, monitor_id) ==
    get_window_monitor_id(D, connected, hwnd) = Some(monitor_id)

\* is_window_in_correct_state that wants a fullscreen window maximized as well
is_window_in_correct_state_both(D, connected, hwnd, monitor_id, maximize, fullscreen) ==
    IF ~is_window_on_monitor(D, connected, hwnd, monitor_id) THEN FALSE
    ELSE IF fullscreen THEN is_window_fullscreen(D, hwnd) /\ is_window_maximized(D, hwnd)
    ELSE IF maximize THEN is_window_maximized(D, hwnd) /\ ~is_window_fullscreen(D, hwnd)
    ELSE ~is_window_maximized(D, hwnd) /\ ~is_window_fullscreen(D, hwnd)

\* is_window_in_correct_state that tests maximize before fullscreen
is_window_in_correct_state_maxfirst(D, connected, hwnd, monitor_id, maximize, fullscreen) ==
    IF ~is_window_on_monitor(D, connected, hwnd, monitor_id) THEN FALSE
    ELSE IF maximize THEN is_window_maximized(D, hwnd) /\ ~is_window_fullscreen(D, hwnd)
    ELSE IF fullscreen THEN is_window_fullscreen(D, hwnd)
    ELSE ~is_window_maximized(D, hwnd) /\ ~is_window_fullscreen(D, hwnd)

\* is_window_in_correct_state(hwnd, monitor_id, monitor, maximize, fullscreen)
is_window_in_correct_state(D, connected, hwnd, monitor_id, maximize, fullscreen) ==
    IF ~is_window_on_monitor(D, connected, hwnd, monitor_id) THEN FALSE
    ELSE IF fullscreen THEN is_window_fullscreen(D, hwnd)
    ELSE IF maximize THEN is_window_maximized(D, hwnd) /\ ~is_window_fullscreen(D, hwnd)
    ELSE ~is_window_maximized(D, hwnd) /\ ~is_window_fullscreen(D, hwnd)

----------------------------------------------------------------------------
(* WindowManager: the window operations *)

\* move_window without the restore that precedes the move
move_window_norestore(D, hwnd, monitor) ==
    MoveWindow(D, hwnd, monitor.x, monitor.y, monitor.width, monitor.height)

\* move_window(hwnd, monitor)
move_window(D, hwnd, monitor) ==
    MoveWindow(ShowWindow(D, hwnd, "SW_RESTORE"), hwnd,
               monitor.x, monitor.y, monitor.width, monitor.height)

\* fullscreen_window(hwnd): focus the window (three attempts), inject the key,
\* give the focus back
fullscreen_window(D, hwnd) ==
    LET Retry(D1) ==
            IF D1.foreground = hwnd THEN D1
            ELSE SetForegroundWindow(SetForegroundWindow(D1, hwnd), hwnd)
        GiveBack(original_fg, D3) ==
            IF original_fg # 0 /\ original_fg # hwnd
            THEN SetForegroundWindow(D3, original_fg)
            ELSE D3
    IN  GiveBack(D.foreground, SendF11(Retry(SetForegroundWindow(D, hwnd))))

\* maximize_window(hwnd, monitor)
maximize_window(D, hwnd) ==
    ShowWindow(IF is_window_fullscreen(D, hwnd) THEN fullscreen_window(D, hwnd) ELSE D,
               hwnd, "SW_MAXIMIZE")

\* Scenario A of apply_window_rule: fullscreen wanted
WantFullscreen(D, hwnd, ops) ==
    IF is_window_fullscreen(D, hwnd) THEN [D |-> D, operations |-> ops]
    ELSE IF ~is_window_maximized(D, hwnd)
    THEN [D |-> fullscreen_window(maximize_window(D, hwnd), hwnd),
          operations |-> ops \o <<"maximize", "fullscreen">>]
    ELSE [D |-> fullscreen_window(D, hwnd), operations |-> ops \o <<"fullscreen">>]

\* Scenario C that maximizes only a window it has taken out of fullscreen
WantMaximize_after_exit(D, hwnd, ops) ==
    LET current_fullscreen == is_window_fullscreen(D, hwnd)
        D1 == IF current_fullscreen THEN fullscreen_window(D, hwnd) ELSE D
        ops1 == IF current_fullscreen THEN ops \o <<"exit_fullscreen">> ELSE ops
    IN  IF current_fullscreen
        THEN [D |-> maximize_window(D1, hwnd), operations |-> ops1 \o <<"maximize">>]
        ELSE [D |-> D1, operations |-> ops1]

\* Scenario C of apply_window_rule: maximize wanted
WantMaximize(D, hwnd, ops) ==
    LET current_fullscreen == is_window_fullscreen(D, hwnd)
        current_maximized == is_window_maximized(D, hwnd)
        D1 == IF current_fullscreen THEN fullscreen_window(D, hwnd) ELSE D
        ops1 == IF current_fullscreen THEN ops \o <<"exit_fullscreen">> ELSE ops
    IN  IF ~current_maximized \/ current_fullscreen
        THEN [D |-> maximize_window(D1, hwnd), operations |-> ops1 \o <<"maximize">>]
        ELSE [D |-> D1, operations |-> ops1]

\* the last branch of apply_window_rule: neither wanted
WantNormal(D, hwnd, ops, needs_move) ==
    LET current_fullscreen == is_window_fullscreen(D, hwnd)
        current_maximized == is_window_maximized(D, hwnd)
        D1 == IF current_fullscreen THEN fullscreen_window(D, hwnd) ELSE D
        ops1 == IF current_fullscreen THEN ops \o <<"exit_fullscreen">> ELSE ops
    IN  IF current_maximized /\ ~needs_move
        THEN [D |-> ShowWindow(D1, hwnd, "SW_RESTORE"), operations |-> ops1 \o <<"restore">>]
        ELSE [D |-> D1, operations |-> ops1]

\* apply_window_rule(hwnd, monitor_id, maximize, fullscreen):
\* the desktop after the call and the result returned; raised says that the
\* call ended in the exception of move_window instead of returning
apply_window_rule(D, connected, hwnd, monitor_id, maximize, fullscreen) ==
    LET monitor == get_connected_monitor(connected, monitor_id)
    IN  IF IsNone(monitor)
        THEN [D |-> D, changed |-> FALSE, operations |-> <<>>, raised |-> FALSE]
        ELSE IF is_window_in_correct_state(D, connected, hwnd, monitor_id,
                                           maximize, fullscreen)
        THEN [D |-> D, changed |-> FALSE, operations |-> <<>>, raised |-> FALSE]
        ELSE LET Changed(r) ==
                     [D |-> r.D, changed |-> TRUE, operations |-> r.operations,
                      raised |-> FALSE]
                 Steps(needs_move, D1, ops1) ==
                     IF fullscreen THEN WantFullscreen(D1, hwnd, ops1)
                     ELSE IF maximize THEN WantMaximize(D1, hwnd, ops1)
                     ELSE WantNormal(D1, hwnd, ops1, needs_move)
                 Move(needs_move) ==
                     IF needs_move /\ MoveWindowRaises(D, hwnd)
                     THEN [D |-> move_window(D, hwnd, Val(monitor)), changed |-> FALSE,
                           operations |-> <<>>, raised |-> TRUE]
                     ELSE Changed(Steps(needs_move,
                                        IF needs_move
                                        THEN move_window(D, hwnd, Val(monitor)) ELSE D,
                                        IF needs_move THEN <<"move">> ELSE <<>>))
             IN  Move(~is_window_on_monitor(D, connected, hwnd, monitor_id))

----------------------------------------------------------------------------
(* WindowManager: classification and enumeration *)

system_classnames == {"Progman", "WorkerW", "Shell_TrayWnd", "Shell_SecondaryTrayWnd"}

ProgramManager == <<"P", "r", "o", "g", "r", "a", "m", " ", "M", "a", "n", "a", "g", "e", "r">>

system_titles == {ProgramManager}

system_process_names ==
    {<<"S", "y", "s", "t", "e", "m", "S", "e", "t", "t", "i", "n", "g", "s", ".", "e", "x", "e">>,
     <<"S", "e", "a", "r", "c", "h", "U", "I", ".", "e", "x", "e">>,
     <<"S", "t", "a", "r", "t", "M", "e", "n", "u", "E", "x", "p", "e", "r", "i", "e", "n", "c", "e", "H", "o", "s", "t", ".", "e", "x", "e">>,
     <<"S", "h", "e", "l", "l", "E", "x", "p", "e", "r", "i", "e", "n", "c", "e", "H", "o", "s", "t", ".", "e", "x", "e">>,
     <<"R", "u", "n", "t", "i", "m", "e", "B", "r", "o", "k", "e", "r", ".", "e", "x", "e">>,
     <<"d", "w", "m", ".", "e", "x", "e">>,
     <<"s", "i", "h", "o", "s", "t", ".", "e", "x", "e">>,
     <<"c", "t", "f", "m", "o", "n", ".", "e", "x", "e">>,
     <<"t", "a", "s", "k", "h", "o", "s", "t", "w", ".", "e", "x", "e">>}

excluded_window_filenames ==
    {<<"S", "y", "s", "t", "e", "m", "S", "e", "t", "t", "i", "n", "g", "s", ".", "e", "x", "e">>,
     <<"T", "e", "x", "t", "I", "n", "p", "u", "t", "H", "o", "s", "t", ".", "e", "x", "e">>,
     <<"H", "x", "O", "u", "t", "l", "o", "o", "k", ".", "e", "x", "e">>,
     <<"S", "h", "e", "l", "l", "E", "x", "p", "e", "r", "i", "e", "n", "c", "e", "H", "o", "s", "t", ".", "e", "x", "e">>}

SwitcherMarker ==
    <<"_", "_", "S", "C", "R", "E", "E", "N", "Y", "_", "W", "I", "N", "D", "O", "W", "_", "S", "W", "I", "T", "C", "H", "E", "R", "_", "U", "N", "I", "Q", "U", "E", "_", "M", "A", "R", "K", "E", "R", "_", "_">>

\* _exe_name_from_path(process_path): Path(process_path).name
RECURSIVE PathName(_)
PathName(path) ==
    IF \E i \in 1..Len(path) : path[i] \in {"\\", "/"}
    THEN PathName(Tail(path))
    ELSE path

exe_name_from_path(process_path) ==
    IF IsNone(process_path) \/ Len(Val(process_path)) = 0 THEN NONE
    ELSE Some(PathName(Val(process_path)))

\* is_system_window(title, class_name, exe_name)
is_system_window(title, class_name, exe_name) ==
    \/ Len(Strip(title)) > 0 /\ Strip(title) \in system_titles
    \/ class_name \in system_classnames
    \/ ~IsNone(exe_name) /\ Len(Val(exe_name)) > 0 /\ Val(exe_name) \in system_process_names

\* the window_info dict get_all_windows builds for one window, NONE if it is left out
window_info(D, connected, hwnd) ==
    LET Info(w, exe_name, is_system) ==
            IF Contains(w.title, SwitcherMarker) THEN NONE
            ELSE IF ~IsNone(exe_name) /\ Val(exe_name) \in excluded_window_filenames
            THEN NONE
            ELSE IF Len(Strip(w.title)) = 0 /\ ~is_system THEN NONE
            ELSE Some([hwnd |-> hwnd,
                       title |-> w.title,
                       process_path |-> w.process_path,
                       exe_name |-> exe_name,
                       is_system |-> is_system,
                       is_minimized |-> w.show = "minimized",
                       is_maximized |-> is_window_maximized(D, hwnd),
                       is_fullscreen |-> is_window_fullscreen(D, hwnd),
                       monitor_id |-> get_window_monitor_id(D, connected, hwnd)])
        Classify(w, exe_name) ==
            Info(w, exe_name, is_system_window(w.title, w.class_name, exe_name))
    IN  Classify(D.windows[hwnd], exe_name_from_path(D.windows[hwnd].process_path))

\* get_all_windows(): one window_info per enumerated window, in enumeration order
RECURSIVE EnumerateFrom(_, _, _)
EnumerateFrom(D, connected, hwnd) ==
    IF hwnd \notin DOMAIN D.windows THEN <<>>
    ELSE window_info(D, connected, hwnd) \o EnumerateFrom(D, connected, hwnd + 1)

get_all_windows(D, connected) == EnumerateFrom(D, connected, 1)

----------------------------------------------------------------------------
(* WindowManager: the rule pass *)

\* x or "" for an Optional str
OrEmpty(o) == IF IsNone(o) THEN <<>> ELSE Val(o)

\* the matching predicate of apply_rules for one window
RuleMatchesWindow(rule, window) ==
    LET mv_lower == Lower(Strip(rule.match_value))
    IN  IF rule.match_type = "exe"
        THEN normalize_exe_name(Strip(OrEmpty(window.exe_name))) = normalize_exe_name(mv_lower)
        ELSE IF rule.match_type = "window_title"
        THEN Len(mv_lower) > 0 /\ Contains(Lower(window.title), mv_lower)
        ELSE IF rule.match_type = "process_path"
        THEN Len(mv_lower) > 0 /\ mv_lower = Lower(OrEmpty(window.process_path))
        ELSE FALSE

\* matching_windows of apply_rules
RECURSIVE MatchingWindows(_, _)
MatchingWindows(rule, all_windows) ==
    IF Len(all_windows) = 0 THEN <<>>
    ELSE (IF RuleMatchesWindow(rule, all_windows[1]) THEN <<all_windows[1]>> ELSE <<>>)
         \o MatchingWindows(rule, Tail(all_windows))

ZeroResults ==
    [applied |-> 0, skipped_no_monitor |-> 0, skipped_no_window |-> 0, failed |-> 0,
     details |-> <<>>]

\* the body of "for window in matching_windows" that does not leave minimized
\* windows alone
ApplyRuleToWindow_minimized(P, connected, rule, window) ==
    IF Len(Strip(window.title)) = 0 THEN P
    ELSE IF Strip(window.title) = ProgramManager THEN P
    ELSE LET Count(r) ==
                 [D |-> r.D,
                  results |-> IF r.raised
                              THEN [P.results EXCEPT
                                        !.failed = @ + 1,
                                        !.details = Append(@, [rule_id |-> rule.rule_id,
                                                               result |-> "error"])]
                              ELSE IF r.changed
                              THEN [P.results EXCEPT !.applied = @ + 1]
                              ELSE P.results,
                  calls |-> Append(P.calls,
                                   [rule_id |-> rule.rule_id, hwnd |-> window.hwnd,
                                    changed |-> r.changed,
                                    operations |-> r.operations,
                                    raised |-> r.raised])]
         IN  Count(apply_window_rule(P.D, connected, window.hwnd, rule.target_monitor_id,
                                     rule.maximize, rule.fullscreen))

\* the body of "for window in matching_windows" for one window: P is
\* [D, results, calls]; calls lists the invocations of apply_window_rule
ApplyRuleToWindow(P, connected, rule, window) ==
    IF window.is_minimized THEN P
    ELSE IF Len(Strip(window.title)) = 0 THEN P
    ELSE IF Strip(window.title) = ProgramManager THEN P
    ELSE LET Count(r) ==
                 [D |-> r.D,
                  results |-> IF r.raised
                              THEN [P.results EXCEPT
                                        !.failed = @ + 1,
                                        !.details = Append(@, [rule_id |-> rule.rule_id,
                                                               result |-> "error"])]
                              ELSE IF r.changed
                              THEN [P.results EXCEPT !.applied = @ + 1]
                              ELSE P.results,
                  calls |-> Append(P.calls,
                                   [rule_id |-> rule.rule_id, hwnd |-> window.hwnd,
                                    changed |-> r.changed,
                                    operations |-> r.operations,
                                    raised |-> r.raised])]
         IN  Count(apply_window_rule(P.D, connected, window.hwnd, rule.target_monitor_id,
                                     rule.maximize, rule.fullscreen))

\* "for window in matching_windows" with the try around the loop instead of
\* inside it: the first exception ends the rule
RECURSIVE ApplyRuleToWindows_abort(_, _, _, _)
ApplyRuleToWindows_abort(P, connected, rule, matching) ==
    IF Len(matching) = 0 THEN P
    ELSE LET Continue(P1) ==
                 IF P1.results.failed > P.results.failed THEN P1
                 ELSE ApplyRuleToWindows_abort(P1, connected, rule, Tail(matching))
         IN  Continue(ApplyRuleToWindow(P, connected, rule, matching[1]))

RECURSIVE ApplyRuleToWindows(_, _, _, _)
ApplyRuleToWindows(P, connected, rule, matching) ==
    IF Len(matching) = 0 THEN P
    ELSE ApplyRuleToWindows(ApplyRuleToWindow(P, connected, rule, matching[1]),
                            connected, rule, Tail(matching))

\* the body of "for rule in rules" for one rule
ApplyRule(P, connected, rule, all_windows) ==
    IF ~is_monitor_connected(connected, rule.target_monitor_id)
    THEN [P EXCEPT !.results.skipped_no_monitor = @ + 1,
                   !.results.details =
                       Append(@, [rule_id |-> rule.rule_id, result |-> "skipped_no_monitor"])]
    ELSE LET Apply(matching) ==
                 IF Len(matching) = 0
                 THEN [P EXCEPT !.results.skipped_no_window = @ + 1,
                                !.results.details =
                                    Append(@, [rule_id |-> rule.rule_id,
                                               result |-> "skipped_no_window"])]
                 ELSE ApplyRuleToWindows(P, connected, rule, matching)
         IN  Apply(MatchingWindows(rule, all_windows))

RECURSIVE ApplyRulesLoop(_, _, _, _)
ApplyRulesLoop(P, connected, rules, all_windows) ==
    IF Len(rules) = 0 THEN P
    ELSE ApplyRulesLoop(ApplyRule(P, connected, rules[1], all_windows),
                        connected, Tail(rules), all_windows)

\* apply_rules() run without interruption: detect the monitors, resolve the rules
\* of the active layout, enumerate the windows, apply every rule
apply_rules(D, monitors, known, counter, connected, active) ==
    LET Return(det, rules, P) ==
            [D |-> P.D, results |-> P.results, calls |-> P.calls, rules |-> rules,
             known |-> det.known, counter |-> det.counter, connected |-> det.connected]
        Pass(det, rules, P0) ==
            Return(det, rules,
                   IF Len(rules) = 0 THEN P0
                   ELSE ApplyRulesLoop(P0, det.connected, rules,
                                       get_all_windows(D, det.connected)))
    IN  Pass(detect_monitors(monitors, known, counter, connected),
             get_active_rules(active),
             [D |-> D, results |-> ZeroResults, calls |-> <<>>])

----------------------------------------------------------------------------
(* The environment the model runs in *)

\* screeninfo monitors: name is the DISPLAY number of the OS name
Monitor1V == [name |-> 1, width |-> 1080, height |-> 1920, x |-> 0, y |-> 0]

Monitor2H == [name |-> 2, width |-> 1920, height |-> 1080, x |-> 1080, y |-> 0]

Monitor2Big == [name |-> 2, width |-> 2560, height |-> 1440, x |-> 1080, y |-> 0]

\* the display arrangements the machine goes through: both displays, DISPLAY2
\* unplugged, DISPLAY2 replaced by another panel
Topologies == {<<Monitor1V, Monitor2H>>, <<Monitor1V>>, <<Monitor1V, Monitor2Big>>}

\* number of windows on the desktop
NumWindows == 2

Hwnds == 1..NumWindows

\* values datetime.now() takes
MaxClock == 2

Threads == {"loop", "api"}

StyleFullscreen == ToggledStyle(StyleNormal)

RectOnDisplay1 == <<100, 100, 900, 700>>

RectOnDisplay2 == <<1200, 100, 2000, 700>>

\* what each window is: a browser, an editor, the desktop
WindowIdentity(hwnd) ==
    IF hwnd = 1
    THEN [title |-> TitleDoc, process_path |-> Some(<<"C", ":", "\\", "c", "h", "r", "o", "m", "e", ".", "e", "x", "e">>),
          class_name |-> "Chrome_WidgetWin_1"]
    ELSE IF hwnd = 2
    THEN [title |-> <<"m", "a", "i", "l">>,
          process_path |-> Some(<<"C", ":", "\\", "n", "o", "t", "e", "p", "a", "d", ".", "e", "x", "e">>),
          class_name |-> "Notepad"]
    ELSE [title |-> ProgramManager, process_path |-> Some(<<"C", ":", "\\", "e", "x", "p", "l", "o", "r", "e", "r", ".", "e", "x", "e">>),
          class_name |-> "Progman"]

Window(hwnd, show, style, rect, f11, focusable, restore_exits_fs) ==
    [title |-> WindowIdentity(hwnd).title,
     process_path |-> WindowIdentity(hwnd).process_path,
     class_name |-> WindowIdentity(hwnd).class_name,
     show |-> show, style |-> style, rect |-> rect,
     f11 |-> f11, focusable |-> focusable, restore_exits_fs |-> restore_exits_fs,
     elevated |-> FALSE]

\* the chrome states and positions a window can be found in
WindowShapes ==
    {[show |-> show, style |-> style, rect |-> rect] :
        show \in {"normal", "maximized", "minimized"},
        style \in {StyleNormal, StyleFullscreen},
        rect \in {RectOnDisplay1, RectOnDisplay2}}

\* the ways an application behaves: honours the toggle key, accepts the focus,
\* leaves fullscreen when restored
WindowBehaviours ==
    {[f11 |-> f11, focusable |-> focusable, restore_exits_fs |-> rx] :
        f11 \in BOOLEAN, focusable \in BOOLEAN, rx \in BOOLEAN}

\* every state window hwnd can be found in
WindowStates(hwnd) ==
    {Window(hwnd, s.show, s.style, s.rect, b.f11, b.focusable, b.restore_exits_fs) :
        s \in WindowShapes, b \in WindowBehaviours}

\* the desktop at start: the browser in normal state on DISPLAY1, every other
\* window in normal state on DISPLAY2; the editor has the input focus
InitialWindows ==
    [h \in Hwnds |->
        Window(h, "normal", StyleNormal,
               IF h = 1 THEN RectOnDisplay1 ELSE RectOnDisplay2, TRUE, TRUE, FALSE)]

Desktop == [windows |-> windows, foreground |-> foreground, oscalls |-> <<>>]

IdlePass == [pc |-> "idle"]

\* ScreenAssignService after __init__: not running, no loop thread started, no
\* caller inside stop() or restart()
StoppedService ==
    [running |-> FALSE, status |-> "stopped", threads |-> <<>>, caller |-> "idle"]

\* the cadences of _service_loop, in seconds
check_interval == 1

rules_apply_interval == 5

window_cache_interval == 2

monitor_detect_interval == 30

layout_check_interval == 10

\* the duties of an iteration, in the order the loop body performs them
Duties == <<"cache", "detect", "check", "apply">>

Interval(duty) ==
    CASE duty = "cache" -> window_cache_interval
      [] duty = "detect" -> monitor_detect_interval
      [] duty = "check" -> layout_check_interval
      [] duty = "apply" -> rules_apply_interval

\* no thread in _service_loop.  elapsed[d] is current_time - last_<d>, counted
\* up to the interval of d: last_<d> = 0 makes every duty due in the first
\* iteration; ticks counts the iterations completed.  pending holds the duties
\* whose last attempt raised; order says whether a detection ("detected") and
\* then a validity check ("checked") ran since the last rule pass.
IdleLoop ==
    [pc |-> "idle",
     elapsed |-> [d \in {"cache", "detect", "check", "apply"} |-> Interval(d)],
     ticks |-> 0, pending |-> {}, order |-> "none"]

NoCall ==
    [op |-> "none", arg |-> <<>>, pre_active |-> NONE, pre_windows |-> <<>>,
     pre_known |-> <<>>, returned |-> <<>>, raised |-> NONE, calls |-> <<>>,
     oscalls |-> <<>>]

Init ==
    /\ layout_files = LayoutFiles
    /\ loop = IdleLoop
    /\ os_monitors \in Topologies
    /\ known_monitors = <<>>
    /\ id_counter = 0
    /\ connected_monitors = <<>>
    /\ active_layout = NONE
    /\ windows = InitialWindows
    /\ foreground = 2
    /\ last = NoCall
    /\ pass = [t \in Threads |-> IdlePass]
    /\ service = StoppedService
    /\ config_file = ConfigSaved(known_monitors)

----------------------------------------------------------------------------
(* Operations of the library surface, each run without interruption *)

\* the display arrangement changes (a cable is pulled, a panel is swapped or rotated)
ChangeMonitors ==
    /\ \E t \in Topologies \ {os_monitors} : os_monitors' = t
    /\ last' = [NoCall EXCEPT !.op = "change_monitors", !.pre_active = active_layout]
    /\ UNCHANGED <<known_monitors, id_counter, connected_monitors, active_layout,
                   windows, foreground, pass, service, layout_files, loop, config_file>>

\* MonitorManager.detect_monitors()
DetectMonitors ==
    LET Detected(r) ==
            /\ known_monitors' = r.known
            /\ config_file' = SavedIf(Len(os_monitors) > 0, config_file, r.known)
            /\ id_counter' = r.counter
            /\ connected_monitors' = r.connected
            /\ last' = [NoCall EXCEPT !.op = "detect_monitors",
                                      !.pre_active = active_layout,
                                      !.pre_known = known_monitors,
                                      !.returned = r.detected_ids]
            /\ UNCHANGED <<os_monitors, active_layout, windows, foreground, pass, service, layout_files, loop>>
    IN  Detected(detect_monitors(os_monitors, known_monitors, id_counter, connected_monitors))

\* LayoutManager.activate_layout(layout_name)
ActivateLayout ==
    \E layout_name \in LayoutNames, now \in 1..MaxClock :
        LET Activated(r) ==
                /\ active_layout' = r.active
                /\ last' = [NoCall EXCEPT !.op = "activate_layout", !.arg = layout_name,
                                          !.pre_active = active_layout,
                                          !.returned = r.returned, !.raised = r.raised]
                /\ UNCHANGED <<os_monitors, known_monitors, id_counter,
                               connected_monitors, windows, foreground, pass, service, layout_files, loop,
                               config_file>>
        IN  Activated(activate_layout(active_layout, layout_name, now,
                                   connected_monitors, known_monitors))

\* LayoutManager.deactivate_layout()
DeactivateLayout ==
    LET Deactivated(r) ==
            /\ active_layout' = r.active
            /\ last' = [NoCall EXCEPT !.op = "deactivate_layout",
                                      !.pre_active = active_layout,
                                      !.returned = Some(r.returned)]
            /\ UNCHANGED <<os_monitors, known_monitors, id_counter, connected_monitors,
                           windows, foreground, pass, service, layout_files, loop,
                           config_file>>
    IN  Deactivated(deactivate_layout(active_layout))

\* LayoutManager.check_active_layout_validity()
CheckValidity ==
    LET Checked(r) ==
            /\ active_layout' = r.active
            /\ last' = [NoCall EXCEPT !.op = "check_validity",
                                      !.pre_active = active_layout,
                                      !.returned = Some(r.returned)]
            /\ UNCHANGED <<os_monitors, known_monitors, id_counter, connected_monitors,
                           windows, foreground, pass, service, layout_files, loop,
                           config_file>>
    IN  Checked(check_active_layout_validity(active_layout, connected_monitors,
                                            known_monitors))

\* LayoutManager.get_active_rules()
GetActiveRules ==
    /\ last' = [NoCall EXCEPT !.op = "get_active_rules", !.pre_active = active_layout,
                              !.returned = get_active_rules(active_layout)]
    /\ UNCHANGED <<os_monitors, known_monitors, id_counter, connected_monitors,
                   active_layout, windows, foreground, pass, service, layout_files, loop,
                   config_file>>

\* WindowManager.apply_rules()
ApplyRules ==
    LET Applied(r) ==
            /\ known_monitors' = r.known
            /\ config_file' = SavedIf(Len(os_monitors) > 0, config_file, r.known)
            /\ id_counter' = r.counter
            /\ connected_monitors' = r.connected
            /\ windows' = r.D.windows
            /\ foreground' = r.D.foreground
            /\ last' = [NoCall EXCEPT !.op = "apply_rules", !.pre_active = active_layout,
                                      !.pre_windows = windows,
                                      !.returned = Some(r.results), !.calls = r.calls,
                                      !.oscalls = r.D.oscalls]
            /\ UNCHANGED <<os_monitors, active_layout, pass, service, layout_files, loop>>
    IN  Applied(apply_rules(Desktop, os_monitors, known_monitors, id_counter,
                           connected_monitors, active_layout))

Next ==
    \/ ChangeMonitors
    \/ DetectMonitors
    \/ ActivateLayout
    \/ DeactivateLayout
    \/ CheckValidity
    \/ GetActiveRules
    \/ ApplyRules

Spec == Init /\ [][Next]_vars

----------------------------------------------------------------------------
(* Properties of the layout lifecycle and of the rule pass, over Spec.      *)
(* `last` is the record of the call that led to the current state.          *)

AJson == <<"a">> \o DotJson

BJson == <<"b">> \o DotJson

CJson == <<"c">> \o DotJson

\* the files of the layouts directory that hold a valid layout
ValidFiles == {AJson, BJson, CJson}

\* the OS reports a monitor named DISPLAYn
Attached(n) == \E i \in 1..Len(os_monitors) : os_monitors[i].name = n

\* the MonitorManager holds a monitor named DISPLAYn as connected
Connected(n) ==
    \E i \in 1..Len(connected_monitors) : connected_monitors[i].monitor.name = n

ActivateCalledWhileActive == last.op = "activate_layout" /\ ~IsNone(last.pre_active)

ActivateCalledWhileInactive == last.op = "activate_layout" /\ IsNone(last.pre_active)

\* C1: at most one layout is active, and activate_layout called while a layout
\* is active returns success = False, raises nothing and leaves the whole
\* active-layout slot as it was before the call.
C1_SingleActiveLayout ==
    /\ Len(active_layout) <= 1
    /\ ActivateCalledWhileActive =>
           /\ active_layout = last.pre_active
           /\ IsNone(last.raised)
           /\ ~IsNone(last.returned)
           /\ ~Val(last.returned).success

\* layout "b" was asked for while "a" was active, with monitors that satisfy "b"
C1_Witness ==
    /\ ActivateCalledWhileActive
    /\ Val(last.pre_active).file_name = AJson
    /\ last.arg = <<"b">>
    /\ can_apply_layout(LayoutFiles[BJson].data, connected_monitors, known_monitors).matches

\* the call names a valid layout file whose requirements the connected monitors meet
Activatable(layout_name) ==
    /\ FileName(layout_name) \in ValidFiles
    /\ matches_requirements(get_screen_configuration(connected_monitors, known_monitors),
                            LayoutFiles[FileName(layout_name)].data.screen_requirements).matches

\* C2: activate_layout called while inactive either raises LayoutError and stays
\* inactive (missing file, invalid JSON, failed validation, unmet screen
\* requirements) or, when load, validation and matching all succeed, raises
\* nothing and makes that layout active.
C2_AllOrNothing ==
    ActivateCalledWhileInactive =>
        IF Activatable(last.arg)
        THEN /\ IsNone(last.raised)
             /\ ~IsNone(active_layout)
             /\ Val(active_layout).file_name = FileName(last.arg)
             /\ Val(active_layout).data = LayoutFiles[FileName(last.arg)].data
             /\ Val(last.returned).success
        ELSE /\ ~IsNone(last.raised)
             /\ IsNone(last.returned)
             /\ IsNone(active_layout)

\* a valid layout was refused because only one of its two displays is connected
C2_Witness ==
    /\ ActivateCalledWhileInactive
    /\ last.arg = <<"a">>
    /\ Len(connected_monitors) = 1
    /\ last.raised = Some("requirements")
    /\ IsNone(active_layout)

\* C3: check_active_layout_validity with a layout active deactivates it and
\* returns False when its stored requirements no longer match the connected
\* screen configuration, leaves it unchanged and returns True when they match;
\* with no layout active it returns True and changes nothing.
C3_ValidityCheck ==
    last.op = "check_validity" =>
        IF IsNone(last.pre_active)
        THEN IsNone(active_layout) /\ last.returned = Some(TRUE)
        ELSE IF matches_requirements(
                    get_screen_configuration(connected_monitors, known_monitors),
                    Val(last.pre_active).data.screen_requirements).matches
        THEN active_layout = last.pre_active /\ last.returned = Some(TRUE)
        ELSE IsNone(active_layout) /\ last.returned = Some(FALSE)

\* the layout that needs DISPLAY2 only was revoked by the check
C3_Witness ==
    /\ last.op = "check_validity"
    /\ ~IsNone(last.pre_active)
    /\ Val(last.pre_active).file_name = CJson
    /\ last.returned = Some(FALSE)
    /\ IsNone(active_layout)

RequiresBothDisplays(layout) == layout.data.screen_requirements = TwoScreens

CheckedTwoDisplayLayout ==
    /\ last.op = "check_validity"
    /\ ~IsNone(last.pre_active)
    /\ RequiresBothDisplays(Val(last.pre_active))

\* DISPLAY2 has just been unplugged under an active layout that requires
\* DISPLAY1 and DISPLAY2
JustUnplugged ==
    /\ last.op = "change_monitors"
    /\ ~Attached(2)
    /\ ~IsNone(active_layout)
    /\ RequiresBothDisplays(Val(active_layout))

\* C4 as stated: with a layout active that requires DISPLAY1 and DISPLAY2, once
\* DISPLAY2 is unplugged the next check_validity call deactivates the layout.
C4_NextCheckDeactivates ==
    [][(JustUnplugged /\ last'.op = "check_validity") => IsNone(active_layout')]_vars

\* C4: with a layout active that requires DISPLAY1 and DISPLAY2, a check_validity
\* call made after a detection pass has seen DISPLAY2 unplugged deactivates the
\* layout and returns False; an apply_rules pass made while no layout is active
\* returns the zero-work result and operates on no window.
C4_Revocation ==
    /\ (CheckedTwoDisplayLayout /\ ~Attached(2) /\ ~Connected(2)) =>
           IsNone(active_layout) /\ last.returned = Some(FALSE)
    /\ (last.op = "apply_rules" /\ IsNone(last.pre_active)) =>
           /\ last.returned = Some(ZeroResults)
           /\ last.calls = <<>>
           /\ last.oscalls = <<>>
           /\ windows = last.pre_windows

\* the two-display layout was revoked once detection had seen DISPLAY2 unplugged
C4_Witness ==
    /\ CheckedTwoDisplayLayout
    /\ ~Attached(2)
    /\ ~Connected(2)
    /\ Connected(1)
    /\ IsNone(active_layout)

\* the stored rule of the active layout a resolved rule comes from
StoredRule(layout, rule_id) ==
    LET hits == {i \in 1..Len(layout.data.rules) : layout.data.rules[i].rule_id = rule_id}
    IN  layout.data.rules[CHOOSE i \in hits : TRUE]

\* every rule get_active_rules returned points at what the stored display_map
\* holds for the rule's target_display
ResolvedThroughStoredMap ==
    (last.op = "get_active_rules" /\ ~IsNone(active_layout)) =>
        \A i \in 1..Len(last.returned) :
            LET layout_rule == StoredRule(Val(active_layout), last.returned[i].rule_id)
            IN  /\ layout_rule.target_display \in DOMAIN Val(active_layout).display_map
                /\ last.returned[i].target_monitor_id =
                       Val(active_layout).display_map[layout_rule.target_display]

\* C5: while a layout stays active no step (detect_monitors,
\* check_active_layout_validity, get_active_rules, apply_rules, a change of the
\* attached monitors) changes its stored display_map, and every resolved rule's
\* target_monitor_id is the stored display_map value of its target_display.
C5_DisplayMapFrozen ==
    /\ [][(~IsNone(active_layout) /\ ~IsNone(active_layout')) =>
              Val(active_layout').display_map = Val(active_layout).display_map]_vars
    /\ []ResolvedThroughStoredMap

\* the rules were resolved to a monitor that is no longer connected, while
\* DISPLAY2 is connected under another id
C5_Witness ==
    /\ last.op = "get_active_rules"
    /\ ~IsNone(active_layout)
    /\ Len(last.returned) > 0
    /\ Connected(2)
    /\ ~is_monitor_connected(connected_monitors, last.returned[1].target_monitor_id)

\* the bounds of DISPLAY2 as a window rectangle
BoundsOfMonitor2H ==
    <<Monitor2H.x, Monitor2H.y, Monitor2H.x + Monitor2H.width, Monitor2H.y + Monitor2H.height>>

\* the scenario of C8: DISPLAY1 vertical and DISPLAY2 horizontal connected, the
\* layout with the one rule {exe chrome.exe, target_display 2, maximize} active
\* and mapped onto them, the browser window normal on DISPLAY1 before the pass
PlacementScenario ==
    /\ last.op = "apply_rules"
    /\ os_monitors = <<Monitor1V, Monitor2H>>
    /\ ~IsNone(last.pre_active)
    /\ Val(last.pre_active).data = LayoutFiles[AJson].data
    /\ Val(last.pre_active).display_map =
           build_display_map(get_screen_configuration(connected_monitors, known_monitors))
    /\ last.pre_windows[1].show = "normal"
    /\ last.pre_windows[1].style = StyleNormal
    /\ last.pre_windows[1].rect = RectOnDisplay1

\* C8: in that scenario the pass moves the window to DISPLAY2's bounds, then
\* maximizes it (operations = [move, maximize]) and returns applied = 1,
\* skipped_no_monitor = skipped_no_window = failed = 0.
C8_EndToEndPlacement ==
    PlacementScenario =>
        /\ last.calls = <<[rule_id |-> "r1", hwnd |-> 1, changed |-> TRUE,
                           operations |-> <<"move", "maximize">>, raised |-> FALSE]>>
        /\ last.oscalls =
               <<[call |-> "ShowWindow", hwnd |-> 1, arg |-> "SW_RESTORE"],
                 [call |-> "MoveWindow", hwnd |-> 1,
                  arg |-> <<Monitor2H.x, Monitor2H.y, Monitor2H.width, Monitor2H.height>>],
                 [call |-> "ShowWindow", hwnd |-> 1, arg |-> "SW_MAXIMIZE"]>>
        /\ windows[1].rect = BoundsOfMonitor2H
        /\ windows[1].show = "maximized"
        /\ Val(last.returned).applied = 1
        /\ Val(last.returned).skipped_no_monitor = 0
        /\ Val(last.returned).skipped_no_window = 0
        /\ Val(last.returned).failed = 0

C8_Witness == PlacementScenario /\ Val(last.returned).applied = 1

\* C9 as stated: in an apply_rules pass the state machine is invoked on a window
\* for one rule only, the first rule in file order that matches it.
C9_FirstMatchWins ==
    last.op = "apply_rules" =>
        \A i, j \in 1..Len(last.calls) :
            last.calls[i].hwnd = last.calls[j].hwnd =>
                last.calls[i].rule_id = last.calls[j].rule_id

----------------------------------------------------------------------------
(* The window state machine on its own: apply_window_rule called on a       *)
(* desktop whose first window is found in any state.                        *)

\* the windows apply_window_rule is called on
RuledWindows == {1}

InitWin ==
    /\ layout_files = LayoutFiles
    /\ loop = IdleLoop
    /\ os_monitors = <<Monitor1V, Monitor2H>>
    /\ LET det == detect_monitors(os_monitors, <<>>, 0, <<>>)
       IN  /\ known_monitors = det.known
           /\ id_counter = det.counter
           /\ connected_monitors = det.connected
    /\ active_layout = NONE
    /\ windows \in {[InitialWindows EXCEPT ![1] = w] : w \in WindowStates(1)}
    /\ foreground \in {0, 2}
    /\ last = NoCall
    /\ pass = [t \in Threads |-> IdlePass]
    /\ service = StoppedService
    /\ config_file = ConfigSaved(known_monitors)

\* WindowManager.apply_window_rule(hwnd, monitor_id, maximize, fullscreen);
\* monitor_id ranges over the known ids and one id that is not known
ApplyWindowRule ==
    \E hwnd \in RuledWindows, monitor_id \in 1..(id_counter + 1),
       maximize \in BOOLEAN, fullscreen \in BOOLEAN :
        LET RuleApplied(r) ==
                /\ windows' = r.D.windows
                /\ foreground' = r.D.foreground
                /\ last' = [NoCall EXCEPT !.op = "apply_window_rule",
                                          !.arg = [hwnd |-> hwnd, monitor_id |-> monitor_id,
                                                   maximize |-> maximize,
                                                   fullscreen |-> fullscreen],
                                          !.pre_windows = windows,
                                          !.returned = Some([changed |-> r.changed,
                                                             operations |-> r.operations]),
                                          !.oscalls = r.D.oscalls]
                /\ UNCHANGED <<os_monitors, known_monitors, id_counter,
                               connected_monitors, active_layout, pass, service, layout_files, loop,
                               config_file>>
        IN  RuleApplied(apply_window_rule(Desktop, connected_monitors, hwnd, monitor_id,
                                     maximize, fullscreen))

NextWin == ApplyWindowRule

SpecWin == InitWin /\ [][NextWin]_vars

\* the centre of window w lies within the bounds of the connected monitor monitor_id
OnTargetMonitor(w, monitor_id) ==
    /\ is_monitor_connected(connected_monitors, monitor_id)
    /\ LET m == Val(get_connected_monitor(connected_monitors, monitor_id))
           cx == (w.rect[1] + w.rect[3]) \div 2
           cy == (w.rect[2] + w.rect[4]) \div 2
       IN  /\ m.x <= cx /\ cx < m.x + m.width
           /\ m.y <= cy /\ cy < m.y + m.height

HasNoChrome(w) == BitAnd(w.style, WS_CAPTION) = 0 /\ BitAnd(w.style, WS_THICKFRAME) = 0

\* window w is in the chrome state the flags ask for
InDesiredChromeState(w, maximize, fullscreen) ==
    \/ fullscreen /\ HasNoChrome(w)
    \/ ~fullscreen /\ maximize /\ w.show = "maximized" /\ ~HasNoChrome(w)
    \/ ~fullscreen /\ ~maximize /\ w.show # "maximized" /\ ~HasNoChrome(w)

WindowRuleCalled == last.op = "apply_window_rule"

\* the call found the window on the target monitor in the desired chrome state
CalledInDesiredState ==
    /\ WindowRuleCalled
    /\ OnTargetMonitor(last.pre_windows[last.arg.hwnd], last.arg.monitor_id)
    /\ InDesiredChromeState(last.pre_windows[last.arg.hwnd],
                            last.arg.maximize, last.arg.fullscreen)

\* C6: apply_window_rule on a window that is on the target monitor and in the
\* desired chrome state returns changed = False, operations = [] and issues no
\* window operation at all.
C6_NoOpWhenInDesiredState ==
    CalledInDesiredState =>
        /\ last.returned = Some([changed |-> FALSE, operations |-> <<>>])
        /\ last.oscalls = <<>>
        /\ windows = last.pre_windows

\* fullscreen was asked of a window that is fullscreen, not maximized, on target
C6_Witness ==
    /\ CalledInDesiredState
    /\ last.arg.fullscreen
    /\ last.pre_windows[last.arg.hwnd].show = "normal"
    /\ ~Val(last.returned).changed

\* the call was made on a visible window of an application that accepts the
\* focus and honours the toggle key, with a connected target monitor
CalledUnderIdealOperations ==
    /\ WindowRuleCalled
    /\ is_monitor_connected(connected_monitors, last.arg.monitor_id)
    /\ last.pre_windows[last.arg.hwnd].show \in {"normal", "maximized"}
    /\ last.pre_windows[last.arg.hwnd].f11
    /\ last.pre_windows[last.arg.hwnd].focusable

\* C7: under ideal operations, when apply_window_rule returns the window is on
\* the target monitor in the desired chrome state, and the same call repeated
\* at once returns changed = False, operations = [].
C7_IdempotentConvergence ==
    CalledUnderIdealOperations =>
        /\ OnTargetMonitor(windows[last.arg.hwnd], last.arg.monitor_id)
        /\ InDesiredChromeState(windows[last.arg.hwnd],
                                last.arg.maximize, last.arg.fullscreen)
        /\ LET NothingDone(again) == ~again.changed /\ again.operations = <<>>
           IN  NothingDone(apply_window_rule(Desktop, connected_monitors, last.arg.hwnd,
                                             last.arg.monitor_id, last.arg.maximize,
                                             last.arg.fullscreen))

\* a maximized window off the target monitor was brought to normal state on it
C7_Witness ==
    /\ CalledUnderIdealOperations
    /\ ~last.arg.maximize /\ ~last.arg.fullscreen
    /\ last.pre_windows[last.arg.hwnd].show = "maximized"
    /\ ~OnTargetMonitor(last.pre_windows[last.arg.hwnd], last.arg.monitor_id)
    /\ Val(last.returned).operations = <<"move">>

----------------------------------------------------------------------------
(* The service with its two callers of apply_rules: the background loop of  *)
(* _service_loop and an API thread in apply_rules_now.  A pass is taken one *)
(* rule at a time; pass[t] is the frame of thread t inside apply_rules:     *)
(* the rules still to apply, the window list it enumerated, its results.    *)

\* the layouts the service may have active when the passes start
StartLayouts == {<<"a">>, <<"b">>, <<"c">>}

InitConc ==
    /\ layout_files = LayoutFiles
    /\ loop = IdleLoop
    /\ os_monitors = <<Monitor1V, Monitor2H>>
    /\ LET det == detect_monitors(os_monitors, <<>>, 0, <<>>)
       IN  /\ known_monitors = det.known
           /\ id_counter = det.counter
           /\ connected_monitors = det.connected
           /\ \E layout_name \in StartLayouts :
                  active_layout =
                      activate_layout(NONE, layout_name, 1, det.connected, det.known).active
    /\ windows \in {[InitialWindows EXCEPT ![1].show = s.show, ![1].style = s.style,
                                           ![1].rect = s.rect] : s \in WindowShapes}
    /\ foreground = 2
    /\ last = NoCall
    /\ pass = [t \in Threads |-> IdlePass]
    /\ service = StoppedService
    /\ config_file = ConfigSaved(known_monitors)

\* thread t enters apply_rules (the API thread through apply_rules_now, which
\* detects the monitors once more before): monitors detected, rules resolved,
\* windows enumerated; with no rules the call returns at once
BeginPass(t) ==
    /\ pass[t].pc = "idle"
    /\ LET Enter(det, rules) ==
               /\ known_monitors' = det.known
               /\ config_file' = SavedIf(Len(os_monitors) > 0, config_file, det.known)
               /\ id_counter' = det.counter
               /\ connected_monitors' = det.connected
               /\ IF Len(rules) = 0
                  THEN /\ pass' = pass
                       /\ last' = [NoCall EXCEPT !.op = "apply_rules", !.arg = t,
                                                 !.pre_active = active_layout,
                                                 !.pre_windows = windows,
                                                 !.returned = Some(ZeroResults)]
                  ELSE /\ pass' = [pass EXCEPT ![t] =
                                      [pc |-> "rules", rules |-> rules,
                                       all_windows |->
                                           get_all_windows(Desktop, det.connected),
                                       results |-> ZeroResults, calls |-> <<>>,
                                       oscalls |-> <<>>]]
                       /\ last' = last
           Detect(first) ==
               Enter(detect_monitors(os_monitors, first.known, first.counter,
                                     first.connected),
                     get_active_rules(active_layout))
       IN  Detect(IF t = "api"
                  THEN detect_monitors(os_monitors, known_monitors, id_counter,
                                       connected_monitors)
                  ELSE [known |-> known_monitors, counter |-> id_counter,
                        connected |-> connected_monitors])
    /\ UNCHANGED <<os_monitors, active_layout, windows, foreground, service, layout_files, loop>>

\* thread t runs the body of "for rule in rules" for its next rule
StepRule(t) ==
    /\ pass[t].pc = "rules"
    /\ Len(pass[t].rules) > 0
    /\ LET Stepped(P) ==
               /\ windows' = P.D.windows
               /\ foreground' = P.D.foreground
               /\ pass' = [pass EXCEPT ![t].rules = Tail(@),
                                       ![t].results = P.results,
                                       ![t].calls = P.calls,
                                       ![t].oscalls = @ \o P.D.oscalls]
       IN  Stepped(ApplyRule([D |-> Desktop, results |-> pass[t].results,
                             calls |-> pass[t].calls],
                            connected_monitors, pass[t].rules[1], pass[t].all_windows))
    /\ UNCHANGED <<os_monitors, known_monitors, id_counter, connected_monitors,
                   active_layout, last, service, layout_files, loop, config_file>>

\* thread t has applied its last rule: apply_rules returns its results
EndPass(t) ==
    /\ pass[t].pc = "rules"
    /\ Len(pass[t].rules) = 0
    /\ last' = [NoCall EXCEPT !.op = "apply_rules", !.arg = t,
                              !.pre_active = active_layout,
                              !.returned = Some(pass[t].results),
                              !.calls = pass[t].calls,
                              !.oscalls = pass[t].oscalls]
    /\ pass' = [pass EXCEPT ![t] = IdlePass]
    /\ UNCHANGED <<os_monitors, known_monitors, id_counter, connected_monitors,
                   active_layout, windows, foreground, service, layout_files, loop,
                   config_file>>

NextConc == \E t \in Threads : BeginPass(t) \/ StepRule(t) \/ EndPass(t)

SpecConc == InitConc /\ [][NextConc]_vars

\* the threads inside apply_rules
InPass == {t \in Threads : pass[t].pc # "idle"}

\* C10 as stated: at no time are two apply_rules passes in progress at once.
C10_NoConcurrentPasses == Cardinality(InPass) <= 1

----------------------------------------------------------------------------
(* The service lifecycle: start(), stop(), restart() called one at a time   *)
(* by a controller, and the threads running _service_loop.                  *)
(* service.threads lists every loop thread ever started, by its position:   *)
(* "begin" (started, before the loop), "test" (at "while self.running"),    *)
(* "body" (inside an iteration), "exited".  service.caller is "idle", or    *)
(* the call that waits in thread.join(timeout=5).                           *)

\* number of loop threads the model lets the service start
MaxThreads == 3

\* settings["default_layout"]: not configured, or a layout of the directory
DefaultLayouts == {NONE, Some(<<"a">>)}

\* start() when self.running is False: mark running, start a thread on
\* _service_loop, activate the default layout if one is configured (a failure
\* to activate is caught and logged)
start(svc, active, default_layout, now, connected, known) ==
    IF svc.running
    THEN [service |-> svc, active |-> active, returned |-> FALSE]
    ELSE [service |-> [svc EXCEPT !.running = TRUE, !.status = "starting",
                                  !.threads = Append(@, "begin"), !.caller = "idle"],
          active |-> IF IsNone(default_layout) THEN active
                     ELSE activate_layout(active, Val(default_layout), now,
                                          connected, known).active,
          returned |-> TRUE]

\* one iteration of the while loop of _service_loop; due says which of the
\* cadences have elapsed (the window cache it also refreshes is not part of
\* the state)
service_iteration(due, D, monitors, known, counter, connected, active) ==
    LET Apply(det, act) ==
            IF due.apply
            THEN LET Done(r) ==
                         [known |-> r.known, counter |-> r.counter,
                          connected |-> r.connected, active |-> act, D |-> r.D]
                 IN  Done(apply_rules(D, monitors, det.known, det.counter,
                                      det.connected, act))
            ELSE [known |-> det.known, counter |-> det.counter,
                  connected |-> det.connected, active |-> act, D |-> D]
        Check(det) ==
            Apply(det,
                  IF due.check
                  THEN check_active_layout_validity(active, det.connected, det.known).active
                  ELSE active)
    IN  Check(IF due.detect
              THEN detect_monitors(monitors, known, counter, connected)
              ELSE [known |-> known, counter |-> counter, connected |-> connected])

InitSvc ==
    /\ layout_files = LayoutFiles
    /\ loop = IdleLoop
    /\ os_monitors = <<Monitor1V, Monitor2H>>
    /\ known_monitors = <<>>
    /\ id_counter = 0
    /\ connected_monitors = <<>>
    /\ active_layout = NONE
    /\ windows = InitialWindows
    /\ foreground = 2
    /\ last = NoCall
    /\ pass = [t \in Threads |-> IdlePass]
    /\ service = StoppedService
    /\ config_file = ConfigSaved(known_monitors)

\* ScreenAssignService.start()
Start ==
    /\ service.caller = "idle"
    /\ Len(service.threads) < MaxThreads
    /\ \E default_layout \in DefaultLayouts, now \in 1..MaxClock :
           LET Started(r) ==
                   /\ service' = r.service
                   /\ active_layout' = r.active
                   /\ last' = [NoCall EXCEPT !.op = "start", !.arg = default_layout,
                                             !.pre_active = active_layout,
                                             !.returned = Some(r.returned)]
           IN  Started(start(service, active_layout, default_layout, now,
                             connected_monitors, known_monitors))
    /\ UNCHANGED <<os_monitors, known_monitors, id_counter, connected_monitors,
                   windows, foreground, pass, layout_files, loop, config_file>>

\* ScreenAssignService.stop() up to thread.join(timeout=5)
Stop ==
    /\ service.caller = "idle"
    /\ IF ~service.running
       THEN /\ service' = service
            /\ last' = [NoCall EXCEPT !.op = "stop", !.pre_active = active_layout,
                                      !.returned = Some(FALSE)]
       ELSE /\ service' = [service EXCEPT !.running = FALSE, !.status = "stopping",
                                          !.caller = "stop"]
            /\ last' = last
    /\ UNCHANGED <<os_monitors, known_monitors, id_counter, connected_monitors,
                   active_layout, windows, foreground, pass, layout_files, loop, config_file>>

\* ScreenAssignService.restart() up to the join of its stop(); with the service
\* not running stop() returns at once and start() follows
Restart ==
    /\ service.caller = "idle"
    /\ Len(service.threads) < MaxThreads
    /\ IF ~service.running
       THEN \E default_layout \in DefaultLayouts, now \in 1..MaxClock :
                LET Restarted(r) ==
                        /\ service' = r.service
                        /\ active_layout' = r.active
                        /\ last' = [NoCall EXCEPT !.op = "restart",
                                                  !.pre_active = active_layout,
                                                  !.returned = Some(r.returned)]
                IN  Restarted(start(service, active_layout, default_layout, now,
                                    connected_monitors, known_monitors))
       ELSE /\ service' = [service EXCEPT !.running = FALSE, !.status = "stopping",
                                          !.caller = "restart"]
            /\ active_layout' = active_layout
            /\ last' = last
    /\ UNCHANGED <<os_monitors, known_monitors, id_counter, connected_monitors,
                   windows, foreground, pass, layout_files, loop, config_file>>

\* thread.join(timeout=5) returns, because the thread has exited or because
\* the five seconds are over; stop() returns True, restart() goes on to start()
JoinReturns ==
    /\ service.caller \in {"stop", "restart"}
    /\ \E timed_out \in BOOLEAN :
           timed_out \/ service.threads[Len(service.threads)] = "exited"
    /\ IF service.caller = "stop"
       THEN /\ service' = [service EXCEPT !.status = "stopped", !.caller = "idle"]
            /\ active_layout' = active_layout
            /\ last' = [NoCall EXCEPT !.op = "stop", !.pre_active = active_layout,
                                      !.returned = Some(TRUE)]
       ELSE \E default_layout \in DefaultLayouts, now \in 1..MaxClock :
                LET Restarted(r) ==
                        /\ service' = r.service
                        /\ active_layout' = r.active
                        /\ last' = [NoCall EXCEPT !.op = "restart",
                                                  !.pre_active = active_layout,
                                                  !.returned = Some(r.returned)]
                IN  Restarted(start([service EXCEPT !.status = "stopped"], active_layout,
                                    default_layout, now, connected_monitors,
                                    known_monitors))
    /\ UNCHANGED <<os_monitors, known_monitors, id_counter, connected_monitors,
                   windows, foreground, pass, layout_files, loop, config_file>>

\* thread i enters _service_loop: status "running", then the loop
LoopBegin(i) ==
    /\ service.threads[i] = "begin"
    /\ service' = [service EXCEPT !.status = "running", !.threads[i] = "test"]
    /\ UNCHANGED <<os_monitors, known_monitors, id_counter, connected_monitors,
                   active_layout, windows, foreground, last, pass, layout_files, loop,
                   config_file>>

\* thread i evaluates "while self.running"
LoopTest(i) ==
    /\ service.threads[i] = "test"
    /\ service' = [service EXCEPT !.threads[i] = IF service.running THEN "body"
                                                 ELSE "exited"]
    /\ UNCHANGED <<os_monitors, known_monitors, id_counter, connected_monitors,
                   active_layout, windows, foreground, last, pass, layout_files, loop,
                   config_file>>

\* thread i runs one iteration of the loop and sleeps
LoopIteration(i) ==
    /\ service.threads[i] = "body"
    /\ \E detect \in BOOLEAN, check \in BOOLEAN, apply \in BOOLEAN :
           LET Iterated(r) ==
                   /\ known_monitors' = r.known
                   /\ config_file' = SavedIf((detect \/ apply) /\ Len(os_monitors) > 0,
                                             config_file, r.known)
                   /\ id_counter' = r.counter
                   /\ connected_monitors' = r.connected
                   /\ active_layout' = r.active
                   /\ windows' = r.D.windows
                   /\ foreground' = r.D.foreground
                   /\ service' = [service EXCEPT
                                      !.threads[i] = "test",
                                      !.status = IF apply THEN "running" ELSE @]
           IN  Iterated(service_iteration([detect |-> detect, check |-> check,
                                           apply |-> apply],
                                          Desktop, os_monitors, known_monitors,
                                          id_counter, connected_monitors, active_layout))
    /\ UNCHANGED <<os_monitors, last, pass, layout_files, loop>>

NextSvc ==
    \/ Start
    \/ Stop
    \/ Restart
    \/ JoinReturns
    \/ \E i \in 1..Len(service.threads) : LoopBegin(i)
    \/ \E i \in 1..Len(service.threads) : LoopTest(i)
    \/ \E i \in 1..Len(service.threads) : LoopIteration(i)

SpecSvc == InitSvc /\ [][NextSvc]_vars

\* the threads that have passed "while self.running" and are inside an iteration
Looping == {i \in 1..Len(service.threads) : service.threads[i] = "body"}

\* C11 as stated: after any sequence of start, stop and restart calls at most
\* one thread is executing the service loop.
C11_SingleLoopThread == Cardinality(Looping) <= 1

----------------------------------------------------------------------------
(* The rule pass on a desktop that holds the windows a pass has to leave    *)
(* alone or fails on: two browser windows found shown or minimized, on      *)
(* either display, elevated or not, honouring the toggle key or not; the    *)
(* OS desktop window; the taskbar, a system window without a title.         *)

\* the layouts active when the passes start
PassLayouts == {<<"b">>, <<"c">>, <<"h">>}

MailTitle == <<"m", "a", "i", "l">>

\* a browser window as a pass may find it
BrowserWindows ==
    {[Window(1, show, StyleNormal, rect, f11, ~elevated, FALSE)
         EXCEPT !.elevated = elevated] :
        show \in {"normal", "minimized"}, rect \in {RectOnDisplay1, RectOnDisplay2},
        f11 \in BOOLEAN, elevated \in BOOLEAN}

\* the OS desktop window ("Program Manager", class Progman)
DesktopWindow == Window(3, "normal", StyleNormal, RectOnDisplay1, FALSE, TRUE, FALSE)

\* the taskbar: class Shell_TrayWnd, no title
TaskbarWindow == [DesktopWindow EXCEPT !.title = <<>>, !.class_name = "Shell_TrayWnd"]

\* the desktops a pass starts on
PassDesktops ==
    {<<w1, [w2 EXCEPT !.title = MailTitle], DesktopWindow, TaskbarWindow>> :
        w1 \in BrowserWindows, w2 \in {w \in BrowserWindows : w.rect = RectOnDisplay1}}

InitPass ==
    /\ layout_files = LayoutFiles
    /\ loop = IdleLoop
    /\ os_monitors = <<Monitor1V, Monitor2H>>
    /\ LET det == detect_monitors(os_monitors, <<>>, 0, <<>>)
       IN  /\ known_monitors = det.known
           /\ id_counter = det.counter
           /\ connected_monitors = det.connected
           /\ \E layout_name \in PassLayouts :
                  active_layout =
                      activate_layout(NONE, layout_name, 1, det.connected, det.known).active
    /\ windows \in PassDesktops
    /\ foreground = 0
    /\ last = NoCall
    /\ pass = [t \in Threads |-> IdlePass]
    /\ service = StoppedService
    /\ config_file = ConfigSaved(known_monitors)

NextPass == ChangeMonitors \/ ApplyRules

SpecPass == InitPass /\ [][NextPass]_vars

\* the rules the pass resolved (apply_rules leaves the active layout as it is)
PassRules == get_active_rules(last.pre_active)

\* the window list the pass enumerated, after its monitor detection
PassEnumeration ==
    get_all_windows([windows |-> last.pre_windows, foreground |-> 0, oscalls |-> <<>>],
                    connected_monitors)

\* the enumeration recorded the window as minimized, as empty-titled or as the
\* OS desktop window
LeftAlone(window) ==
    \/ window.is_minimized
    \/ Len(Strip(window.title)) = 0
    \/ Strip(window.title) = ProgramManager

\* the (rule, window) pairs a complete pass invokes the state machine on
PassInvocations ==
    {<<PassRules[i].rule_id, PassEnumeration[j].hwnd>> :
        <<i, j>> \in {<<i, j>> \in (1..Len(PassRules)) \X (1..Len(PassEnumeration)) :
                        /\ PassRules[i].target_monitor_id \in ConnectedIds(connected_monitors)
                        /\ RuleMatchesWindow(PassRules[i], PassEnumeration[j])
                        /\ ~LeftAlone(PassEnumeration[j])}}

\* the invocations of the pass that ended in an exception
RaisedCalls == {i \in 1..Len(last.calls) : last.calls[i].raised}

\* the error details of the result
ErrorDetails ==
    {k \in 1..Len(Val(last.returned).details) : Val(last.returned).details[k].result = "error"}

\* C12: in an apply_rules pass every exception raised while a rule is applied
\* to a window adds exactly one to failed and one error detail (for that rule),
\* every other matching window of the rule and every later rule is still
\* processed, and apply_rules returns its result instead of raising.
C12_FailureIsolation ==
    last.op = "apply_rules" =>
        /\ IsNone(last.raised) /\ ~IsNone(last.returned)
        /\ Val(last.returned).failed = Cardinality(RaisedCalls)
        /\ Cardinality(ErrorDetails) = Cardinality(RaisedCalls)
        /\ \A i \in 1..Len(PassRules) :
               Cardinality({k \in ErrorDetails :
                               Val(last.returned).details[k].rule_id = PassRules[i].rule_id})
                   = Cardinality({c \in RaisedCalls :
                                     last.calls[c].rule_id = PassRules[i].rule_id})
        /\ {<<last.calls[i].rule_id, last.calls[i].hwnd>> : i \in 1..Len(last.calls)}
               = PassInvocations
        /\ Len(last.calls) = Cardinality(PassInvocations)

\* the first window of the first rule raised; the second window of that rule
\* and a window of the next rule were processed after it
C12_Witness ==
    /\ last.op = "apply_rules"
    /\ Len(last.calls) >= 3
    /\ last.calls[1].raised
    /\ last.calls[2].rule_id = last.calls[1].rule_id
    /\ last.calls[2].hwnd # last.calls[1].hwnd
    /\ last.calls[3].rule_id # last.calls[1].rule_id
    /\ Val(last.returned).failed = 1

\* the last invocation of the pass toggled fullscreen and the style bits of the
\* window still show its caption or border
UnconfirmedToggle ==
    /\ last.op = "apply_rules"
    /\ Len(last.calls) > 0
    /\ LET c == last.calls[Len(last.calls)]
       IN  /\ ~c.raised
           /\ Len(c.operations) > 0
           /\ c.operations[Len(c.operations)] = "fullscreen"
           /\ ~HasNoChrome(windows[c.hwnd])

\* C13 as stated: a fullscreen toggle that the style bits do not confirm is
\* counted in the failed tally of the pass, beyond the exceptions counted there.
C13_UnconfirmedToggleCounted ==
    UnconfirmedToggle => Val(last.returned).failed > Cardinality(RaisedCalls)

\* window hwnd as the desktop held it when the pass enumerated it
LeftAloneWindow(hwnd) ==
    \/ last.pre_windows[hwnd].show = "minimized"
    \/ Len(Strip(last.pre_windows[hwnd].title)) = 0
    \/ Strip(last.pre_windows[hwnd].title) = ProgramManager

DisconnectedTargetRules ==
    {i \in 1..Len(PassRules) :
        PassRules[i].target_monitor_id \notin ConnectedIds(connected_monitors)}

\* the details of the result that are about rule rule_id
DetailsOf(rule_id) ==
    {k \in 1..Len(Val(last.returned).details) :
        Val(last.returned).details[k].rule_id = rule_id}

\* C14: for every resolved rule whose target monitor is not connected after the
\* detection of the pass, apply_rules invokes nothing on any window for it and
\* counts it once, as skipped_no_monitor and as nothing else.
C14_SkippedNoMonitor ==
    last.op = "apply_rules" =>
        /\ Val(last.returned).skipped_no_monitor = Cardinality(DisconnectedTargetRules)
        /\ \A i \in DisconnectedTargetRules :
               /\ \A c \in 1..Len(last.calls) : last.calls[c].rule_id # PassRules[i].rule_id
               /\ Cardinality(DetailsOf(PassRules[i].rule_id)) = 1
               /\ \A k \in DetailsOf(PassRules[i].rule_id) :
                      Val(last.returned).details[k].result = "skipped_no_monitor"
        /\ (DisconnectedTargetRules = 1..Len(PassRules)) =>
               last.oscalls = <<>> /\ windows = last.pre_windows

\* a pass made after DISPLAY2 was unplugged: the rule for DISPLAY2 was skipped,
\* the rule for DISPLAY1 was applied
C14_Witness ==
    /\ last.op = "apply_rules"
    /\ Len(PassRules) = 2
    /\ DisconnectedTargetRules = {1}
    /\ Val(last.returned).skipped_no_monitor = 1
    /\ \E c \in 1..Len(last.calls) : last.calls[c].rule_id = PassRules[2].rule_id

----------------------------------------------------------------------------
(* Monitor identity on its own: add_monitor applied to the monitors the OS  *)
(* reports, starting from the known_monitors list of a loaded config file.  *)

Monitor1H == [name |-> 1, width |-> 1920, height |-> 1080, x |-> 0, y |-> 0]

Monitor2Right == [name |-> 2, width |-> 1920, height |-> 1080, x |-> 1920, y |-> 0]

\* a monitor whose OS name holds no DISPLAY number
MonitorUnnamed == [name |-> NoDisplay, width |-> 1920, height |-> 1080, x |-> 0, y |-> 0]

\* the monitor_data dicts detect_monitors hands to add_monitor
DetectedMonitors == {Monitor1V, Monitor1H, Monitor2H, Monitor2Right, Monitor2Big,
                     MonitorUnnamed}

\* the record add_monitor stored for monitor m under id
KnownRecord(id, m) ==
    [id |-> id, name |-> m.name, width |-> m.width, height |-> m.height,
     x |-> m.x, y |-> m.y, fingerprints |-> generate_fingerprint(m)]

\* known_monitors of the config files load_config may read: none, one monitor,
\* two monitors of different or of equal resolution
KnownConfigs ==
    {<<>>,
     <<KnownRecord(1, Monitor1V)>>,
     <<KnownRecord(1, Monitor1V), KnownRecord(2, Monitor2H)>>,
     <<KnownRecord(1, Monitor1H), KnownRecord(2, Monitor2Right)>>,
     <<KnownRecord(1, Monitor2Big), KnownRecord(2, Monitor1H)>>}

InitAdd ==
    /\ layout_files = LayoutFiles
    /\ loop = IdleLoop
    /\ os_monitors = <<>>
    /\ known_monitors \in KnownConfigs
    /\ id_counter = Len(known_monitors)
    /\ connected_monitors = <<>>
    /\ active_layout = NONE
    /\ windows = InitialWindows
    /\ foreground = 2
    /\ last = NoCall
    /\ pass = [t \in Threads |-> IdlePass]
    /\ service = StoppedService
    /\ config_file = ConfigLoaded(known_monitors)

\* ConfigManager.add_monitor(monitor_data)
AddMonitor ==
    \E monitor_data \in DetectedMonitors :
        LET Added(r) ==
                /\ known_monitors' = r.known
                /\ config_file' = SavedIf(TRUE, config_file, r.known)
                /\ id_counter' = r.counter
                /\ last' = [NoCall EXCEPT !.op = "add_monitor", !.arg = monitor_data,
                                          !.pre_known = known_monitors,
                                          !.returned = Some(r.id)]
                /\ UNCHANGED <<os_monitors, connected_monitors, active_layout, windows,
                               foreground, pass, service, layout_files, loop>>
        IN  Added(add_monitor(known_monitors, id_counter, monitor_data))

NextAdd == AddMonitor

SpecAdd == InitAdd /\ [][NextAdd]_vars

\* the known monitors, before the call, whose primary fingerprint is that of
\* the detected monitor
PrimaryMatches ==
    {i \in 1..Len(last.pre_known) :
        last.pre_known[i].fingerprints.primary = generate_fingerprint(last.arg).primary}

\* the known monitors, before the call, whose secondary fingerprint is that of
\* the detected monitor
SecondaryMatches ==
    {i \in 1..Len(last.pre_known) :
        last.pre_known[i].fingerprints.secondary = generate_fingerprint(last.arg).secondary}

KnownIds(known) == {known[i].id : i \in 1..Len(known)}

\* C16 as stated: add_monitor returns the id of a known monitor that matches by
\* primary fingerprint when there is one, else of one that matches by secondary
\* fingerprint, and appends a monitor under a new id only when none matches.
C16_IdentityResolution ==
    last.op = "add_monitor" =>
        /\ PrimaryMatches # {} =>
               Val(last.returned) \in {last.pre_known[i].id : i \in PrimaryMatches}
        /\ (PrimaryMatches = {} /\ SecondaryMatches # {}) =>
               Val(last.returned) \in {last.pre_known[i].id : i \in SecondaryMatches}
        /\ (PrimaryMatches \cup SecondaryMatches # {}) =>
               Len(known_monitors) = Len(last.pre_known)
        /\ (PrimaryMatches \cup SecondaryMatches = {}) =>
               /\ Val(last.returned) \notin KnownIds(last.pre_known)
               /\ Len(known_monitors) = Len(last.pre_known) + 1
               /\ known_monitors[Len(known_monitors)].id = Val(last.returned)

----------------------------------------------------------------------------
(* The monitor registry: displays are attached and detached, monitors are   *)
(* detected, known monitors are deleted by the user.                        *)

\* number of monitor ids the model lets the registry hand out
MaxIds == 4

\* the display arrangements: two displays of different or of equal resolution,
\* either display alone, a swapped panel
DisplaySetups ==
    {<<Monitor1V, Monitor2H>>, <<Monitor1H, Monitor2Right>>, <<Monitor1V>>, <<Monitor2H>>,
     <<Monitor1V, Monitor2Big>>}

InitMon ==
    /\ layout_files = LayoutFiles
    /\ loop = IdleLoop
    /\ os_monitors \in DisplaySetups
    /\ known_monitors = <<>>
    /\ id_counter = 0
    /\ connected_monitors = <<>>
    /\ active_layout = NONE
    /\ windows = InitialWindows
    /\ foreground = 2
    /\ last = NoCall
    /\ pass = [t \in Threads |-> IdlePass]
    /\ service = StoppedService
    /\ config_file = ConfigSaved(known_monitors)

\* a display is attached, detached or replaced
ChangeDisplays ==
    /\ \E t \in DisplaySetups \ {os_monitors} : os_monitors' = t
    /\ last' = [NoCall EXCEPT !.op = "change_monitors", !.pre_known = known_monitors]
    /\ UNCHANGED <<known_monitors, id_counter, connected_monitors, active_layout,
                   windows, foreground, pass, service, layout_files, loop, config_file>>

\* MonitorManager.detect_monitors(), as long as ids are left to hand out
DetectDisplays ==
    /\ id_counter + Len(os_monitors) <= MaxIds
    /\ DetectMonitors

\* ConfigManager.delete_monitor(monitor_id), for the ids handed out and one
\* that was not
DeleteMonitor ==
    \E monitor_id \in 1..(id_counter + 1) :
        LET Deleted(r) ==
                /\ known_monitors' = r.known
                /\ config_file' = SavedIf(r.returned, config_file, r.known)
                /\ last' = [NoCall EXCEPT !.op = "delete_monitor", !.arg = monitor_id,
                                          !.pre_known = known_monitors,
                                          !.returned = Some(r.returned)]
                /\ UNCHANGED <<os_monitors, id_counter, connected_monitors, active_layout,
                               windows, foreground, pass, service, layout_files, loop>>
        IN  Deleted(delete_monitor(known_monitors, monitor_id))

NextMon == ChangeDisplays \/ DetectDisplays \/ DeleteMonitor

SpecMon == InitMon /\ [][NextMon]_vars

\* C17 as stated: a detect_monitors pass gives two displays attached on
\* different DISPLAY# connectors different monitor ids, and both ids are in
\* the connected set afterwards.
C17_DistinctDisplaysDistinctIds ==
    last.op = "detect_monitors" =>
        \A i, j \in 1..Len(os_monitors) :
            os_monitors[i].name # os_monitors[j].name =>
                /\ last.returned[i] # last.returned[j]
                /\ last.returned[i] \in ConnectedIds(connected_monitors)
                /\ last.returned[j] \in ConnectedIds(connected_monitors)

\* C18 as stated: after every detect_monitors call the connected monitor ids
\* are exactly the ids the call returned.
C18_ConnectedIsLatestDetection ==
    last.op = "detect_monitors" => ConnectedIds(connected_monitors) = Range(last.returned)

\* the known list without the first record of monitor_id
WithoutRecord(known, monitor_id) ==
    LET hits == {i \in 1..Len(known) : known[i].id = monitor_id}
        first == CHOOSE i \in hits : \A j \in hits : i <= j
    IN  IF hits = {} THEN known
        ELSE [k \in 1..(Len(known) - 1) |-> IF k < first THEN known[k] ELSE known[k + 1]]

\* C19: no detect_monitors / add_monitor pass removes a known-monitor record
\* or changes the id (or the size) of one: it appends records and updates
\* position, name and fingerprints in place; a record goes away only through
\* delete_monitor, which removes the record of the id it is given and no other.
C19_IdsAreStable ==
    /\ last.op = "detect_monitors" =>
           /\ Len(known_monitors) >= Len(last.pre_known)
           /\ \A i \in 1..Len(last.pre_known) :
                  /\ known_monitors[i].id = last.pre_known[i].id
                  /\ known_monitors[i].width = last.pre_known[i].width
                  /\ known_monitors[i].height = last.pre_known[i].height
           /\ \A i \in (Len(last.pre_known) + 1)..Len(known_monitors) :
                  known_monitors[i].id \notin KnownIds(last.pre_known)
    /\ last.op = "change_monitors" => known_monitors = last.pre_known
    /\ last.op = "delete_monitor" =>
           known_monitors = WithoutRecord(last.pre_known, last.arg)

\* a detection found a known monitor at a new position: the record was
\* updated in place and kept its id
C19_Witness ==
    /\ last.op = "detect_monitors"
    /\ \E i \in 1..Len(last.pre_known) :
           /\ known_monitors[i] # last.pre_known[i]
           /\ known_monitors[i].id = last.pre_known[i].id
           /\ known_monitors[i].x # last.pre_known[i].x

----------------------------------------------------------------------------
(* Rule resolution against the stored display_map: the layout lifecycle,   *)
(* the layout files edited on disk, and the rule-deletion endpoint, which  *)
(* reloads the data of the active layout from the file.                    *)

ThreeScreens ==
    [total_screens |-> NONE,
     screens |-> <<Screen(1, "vertical"), Screen(2, "horizontal"), Screen(3, "horizontal")>>]

\* the contents a user's editor writes to b.json
EditedLayouts ==
    {[kind |-> "json",
      data |-> [name |-> "Docs", screen_requirements |-> ThreeScreens,
                rules |-> <<Rule("r1", "exe", ChromeExe, 2, TRUE, FALSE),
                            Rule("r3", "exe", ExplorerExe, 3, FALSE, TRUE),
                            Rule("r2", "window_title", TitleDoc, 1, FALSE, FALSE),
                            Rule("r4", "exe", ExplorerExe, 3, FALSE, FALSE)>>]],
     [kind |-> "json",
      data |-> [name |-> "Docs", screen_requirements |-> TwoScreens,
                rules |-> <<Rule("r5", "exe", ExplorerExe, 0, FALSE, TRUE),
                            Rule("r1", "exe", ChromeExe, 2, FALSE, TRUE),
                            Rule("r2", "window_title", TitleDoc, 1, FALSE, FALSE)>>]]}

\* the path parameters of DELETE /layouts/<layout_name>/rules/<rule_id>
DeleteRuleLayouts == {<<"b">>, <<"d">>, <<"g">>}

DeleteRuleIds == {"r1", "r2", "r4", "r9"}

\* [r for r in rules if r.get("rule_id") != rule_id]
RECURSIVE WithoutRule(_, _)
WithoutRule(rules, rule_id) ==
    IF Len(rules) = 0 THEN <<>>
    ELSE IF rules[1].rule_id = rule_id THEN WithoutRule(Tail(rules), rule_id)
    ELSE <<rules[1]>> \o WithoutRule(Tail(rules), rule_id)

\* delete_rule_from_layout(layout_name, rule_id): the file store, the active
\* layout and the HTTP status afterwards
delete_rule_from_layout(files, active, layout_name, rule_id) ==
    LET layout_file == layout_name \o DotJson
    IN  IF layout_file \notin DOMAIN files
        THEN [files |-> files, active |-> active, status |-> 404]
        ELSE IF files[layout_file].kind # "json"
        THEN [files |-> files, active |-> active, status |-> 500]
        ELSE LET layout_data == files[layout_file].data
                 rules == IF "rules" \in DOMAIN layout_data THEN layout_data.rules
                          ELSE <<>>
                 kept == WithoutRule(rules, rule_id)
                 written == [x \in DOMAIN layout_data \cup {"rules"} |->
                                IF x = "rules" THEN kept ELSE layout_data[x]]
             IN  IF Len(kept) = Len(rules)
                 THEN [files |-> files, active |-> active, status |-> 404]
                 ELSE [files |-> [files EXCEPT ![layout_file] =
                                      [kind |-> "json", data |-> written]],
                       active |-> IF /\ ~IsNone(active)
                                     /\ Val(active).file_name = layout_file
                                  THEN Some([Val(active) EXCEPT !.data = written])
                                  ELSE active,
                       status |-> 200]

InitRules ==
    /\ layout_files = LayoutFiles
    /\ loop = IdleLoop
    /\ os_monitors \in Topologies
    /\ known_monitors = <<>>
    /\ id_counter = 0
    /\ connected_monitors = <<>>
    /\ active_layout = NONE
    /\ windows = InitialWindows
    /\ foreground = 2
    /\ last = NoCall
    /\ pass = [t \in Threads |-> IdlePass]
    /\ service = StoppedService
    /\ config_file = ConfigSaved(known_monitors)

\* the user saves b.json from an editor (environment)
EditLayoutFile ==
    /\ \E content \in EditedLayouts \ {layout_files[BJson]} :
           layout_files' = [layout_files EXCEPT ![BJson] = content]
    /\ last' = [NoCall EXCEPT !.op = "edit_layout_file", !.pre_active = active_layout]
    /\ UNCHANGED <<os_monitors, known_monitors, id_counter, connected_monitors,
                   active_layout, windows, foreground, pass, service, loop, config_file>>

\* DELETE /layouts/<layout_name>/rules/<rule_id>
DeleteRuleFromLayout ==
    \E layout_name \in DeleteRuleLayouts, rule_id \in DeleteRuleIds :
        LET Deleted(r) ==
                /\ layout_files' = r.files
                /\ active_layout' = r.active
                /\ last' = [NoCall EXCEPT !.op = "delete_rule_from_layout",
                                          !.arg = layout_name,
                                          !.pre_active = active_layout,
                                          !.returned = Some(r.status)]
                /\ UNCHANGED <<os_monitors, known_monitors, id_counter,
                               connected_monitors, windows, foreground, pass, service, loop,
                               config_file>>
        IN  Deleted(delete_rule_from_layout(layout_files, active_layout,
                                            layout_name, rule_id))

NextRules ==
    \/ DetectMonitors
    \/ ActivateLayout
    \/ DeactivateLayout
    \/ EditLayoutFile
    \/ DeleteRuleFromLayout
    \/ GetActiveRules

SpecRules == InitRules /\ [][NextRules]_vars

\* the stored rules of the layout that was active when the call was made
StoredRules == Val(last.pre_active).data.rules

\* the stored display_map of that layout
StoredMap == Val(last.pre_active).display_map

\* the positions of the stored rules whose target_display is a key of the map
Resolvable == {i \in 1..Len(StoredRules) : StoredRules[i].target_display \in DOMAIN StoredMap}

\* the position in the returned list of the stored rule at position i
RankOf(i) == Cardinality({j \in Resolvable : j <= i})

\* C20: get_active_rules returns the empty list when no layout is active;
\* otherwise it returns, in file order, exactly one resolved rule for each
\* stored rule whose target_display is a key of the stored display_map
\* (target_monitor_id = display_map[target_display]; match_type, match_value,
\* fullscreen and maximize copied), and skips exactly the other rules.
C20_ResolvedInFileOrder ==
    last.op = "get_active_rules" =>
        IF IsNone(last.pre_active) THEN last.returned = <<>>
        ELSE /\ Len(last.returned) = Cardinality(Resolvable)
             /\ \A i \in Resolvable :
                    LET stored == StoredRules[i]
                        resolved == last.returned[RankOf(i)]
                    IN  /\ resolved.target_monitor_id = StoredMap[stored.target_display]
                        /\ resolved.match_type = stored.match_type
                        /\ resolved.match_value = stored.match_value
                        /\ resolved.fullscreen = stored.fullscreen
                        /\ resolved.maximize = stored.maximize

\* a call made with a layout active whose file was edited after activation:
\* a rule whose target_display is not in the map lies between two that resolve
C20_Witness ==
    /\ last.op = "get_active_rules"
    /\ ~IsNone(last.pre_active)
    /\ \E i, j, k \in 1..Len(StoredRules) :
           /\ i < j /\ j < k
           /\ i \in Resolvable /\ k \in Resolvable /\ j \notin Resolvable
    /\ Len(last.returned) = 2

----------------------------------------------------------------------------
(* LayoutMatcher.matches_requirements on the screen configurations of       *)
(* detected display setups and on bounded screen requirements.             *)

\* most screens a layout requires
MaxScreens == 2

Monitor2V == [name |-> 2, width |-> 1200, height |-> 1920, x |-> 1080, y |-> 0]

Monitor2Square == [name |-> 2, width |-> 1200, height |-> 1200, x |-> 1080, y |-> 0]

Monitor3H == [name |-> 3, width |-> 2560, height |-> 1440, x |-> 3000, y |-> 0]

\* what get_monitors() returns when the screens are matched
MatchSetups ==
    {<<>>, <<Monitor1V>>, <<Monitor1H>>, <<Monitor2H>>, <<Monitor2V>>,
     <<Monitor1V, Monitor2H>>, <<Monitor1V, Monitor2V>>, <<Monitor1H, Monitor2V>>,
     <<Monitor1V, Monitor2Square>>, <<Monitor2H, Monitor1V>>,
     <<Monitor1V, Monitor2H, Monitor3H>>, <<Monitor1V, Monitor3H>>,
     <<MonitorUnnamed, Monitor1V>>}

RequiredScreens ==
    {Screen(n, o) : n \in 1..2, o \in {"horizontal", "vertical"}}

\* the sequences of at most n required screens
RECURSIVE ScreenLists(_)
ScreenLists(n) ==
    IF n = 0 THEN {<<>>}
    ELSE ScreenLists(n - 1) \cup
         {Append(l, sc) : l \in {x \in ScreenLists(n - 1) : Len(x) = n - 1},
                          sc \in RequiredScreens}

\* the screen_requirements sections of layouts
ScreenRequirements ==
    {[total_screens |-> t, screens |-> l] :
        t \in {NONE} \cup {Some(n) : n \in 0..3}, l \in ScreenLists(MaxScreens)}

InitMatch ==
    /\ layout_files = LayoutFiles
    /\ loop = IdleLoop
    /\ os_monitors \in MatchSetups
    /\ LET det == detect_monitors(os_monitors, <<>>, 0, <<>>)
       IN  /\ known_monitors = det.known
           /\ id_counter = det.counter
           /\ connected_monitors = det.connected
    /\ active_layout = NONE
    /\ windows = InitialWindows
    /\ foreground = 2
    /\ last = NoCall
    /\ pass = [t \in Threads |-> IdlePass]
    /\ service = StoppedService
    /\ config_file = ConfigSaved(known_monitors)

\* LayoutMatcher.matches_requirements(get_screen_configuration(), requirements)
MatchesRequirements ==
    \E layout_requirements \in ScreenRequirements :
        LET Matched(current_config) ==
                /\ last' = [NoCall EXCEPT
                               !.op = "matches_requirements",
                               !.arg = [current_config |-> current_config,
                                        layout_requirements |-> layout_requirements],
                               !.returned = Some(matches_requirements(current_config,
                                                                     layout_requirements))]
                /\ UNCHANGED <<os_monitors, known_monitors, id_counter,
                               connected_monitors, active_layout, windows, foreground,
                               pass, service, layout_files, loop, config_file>>
        IN  Matched(get_screen_configuration(connected_monitors, known_monitors))

NextMatch == MatchesRequirements

SpecMatch == InitMatch /\ [][NextMatch]_vars

\* the current screens hold an entry with the display number and the
\* orientation of the required screen
Satisfied(current_config, required_screen) ==
    \E j \in 1..Len(current_config) :
        /\ current_config[j].display_number = required_screen.display_number
        /\ current_config[j].orientation = required_screen.orientation

\* total_screens is unspecified or equals the number of current screens
CountMet(current_config, layout_requirements) ==
    \/ IsNone(layout_requirements.total_screens)
    \/ Val(layout_requirements.total_screens) = Len(current_config)

\* C21: matches_requirements returns true iff the screen count is met and
\* every required {display_number, orientation} pair has a current entry with
\* that display number and that orientation; when the count is met and a
\* requirement fails, the reason names the display of the first failing one.
C21_MatchesRequirements ==
    last.op = "matches_requirements" =>
        LET cfg == last.arg.current_config
            req == last.arg.layout_requirements
            r == Val(last.returned)
            failing == {i \in 1..Len(req.screens) : ~Satisfied(cfg, req.screens[i])}
        IN  /\ r.matches <=> (CountMet(cfg, req) /\ failing = {})
            /\ (CountMet(cfg, req) /\ failing # {}) =>
                   r.display =
                       req.screens[CHOOSE i \in failing :
                                       \A j \in failing : i <= j].display_number

\* DISPLAY1 vertical and DISPLAY2 vertical are connected, the layout needs
\* DISPLAY1 vertical and DISPLAY2 horizontal: the reason names DISPLAY2
C21_Witness ==
    /\ last.op = "matches_requirements"
    /\ os_monitors = <<Monitor1V, Monitor2V>>
    /\ last.arg.layout_requirements = TwoScreens
    /\ ~Val(last.returned).matches
    /\ Val(last.returned).reason = "orientation"
    /\ Val(last.returned).display = 2

----------------------------------------------------------------------------
(* Properties of the window state machine, over SpecWin (continued).        *)

\* the step is a call of apply_window_rule with fullscreen wanted
FullscreenRuleStep ==
    /\ last'.op = "apply_window_rule"
    /\ last'.arg.fullscreen

\* C22: fullscreen takes precedence over maximize: a call of apply_window_rule
\* with fullscreen=True performs the operations and reaches the final state
\* that the call with the other value of maximize performs and reaches from
\* the same window state, and is_window_in_correct_state answers the same
\* for both.
C22_FullscreenPrecedence ==
    [][FullscreenRuleStep =>
          LET Same(other) ==
                  /\ windows' = other.D.windows
                  /\ foreground' = other.D.foreground
                  /\ last'.oscalls = other.D.oscalls
                  /\ last'.returned = Some([changed |-> other.changed,
                                            operations |-> other.operations])
          IN  /\ Same(apply_window_rule(Desktop, connected_monitors, last'.arg.hwnd,
                                        last'.arg.monitor_id, ~last'.arg.maximize, TRUE))
              /\ is_window_in_correct_state(Desktop, connected_monitors,
                                            last'.arg.hwnd, last'.arg.monitor_id,
                                            TRUE, TRUE)
                     = is_window_in_correct_state(Desktop, connected_monitors,
                                                  last'.arg.hwnd, last'.arg.monitor_id,
                                                  FALSE, TRUE)]_vars

\* a call with maximize=True and fullscreen=True that moved the window and
\* toggled it to fullscreen
C22_Witness ==
    /\ last.op = "apply_window_rule"
    /\ last.arg.fullscreen
    /\ last.arg.maximize
    /\ Val(last.returned).changed
    /\ Val(last.returned).operations = <<"move", "maximize", "fullscreen">>

----------------------------------------------------------------------------
(* The service loop duty by duty: one thread in _service_loop, the displays *)
(* changing, stop() called.                                                *)

\* seconds from the start of one iteration to the start of the next: the
\* sleep of check_interval (the duties of an idle desktop take less than the
\* resolution of the cadences)
TickLengths == {check_interval}

\* number of iterations the model lets the loop complete
MaxTicks == 6

\* the layouts activated through the API before the service is started
LoopLayouts == {<<"a">>}

\* the monitors detected and a layout activated through the API, then start()
InitLoop ==
    /\ layout_files = LayoutFiles
    /\ loop = [IdleLoop EXCEPT !.pc = "begin"]
    /\ os_monitors = <<Monitor1V, Monitor2H>>
    /\ LET det == detect_monitors(os_monitors, <<>>, 0, <<>>)
       IN  /\ known_monitors = det.known
           /\ id_counter = det.counter
           /\ connected_monitors = det.connected
           /\ \E layout_name \in LoopLayouts :
                  active_layout =
                      activate_layout(NONE, layout_name, 1, det.connected, det.known).active
           /\ service = start(StoppedService, active_layout, NONE, 1,
                              det.connected, det.known).service
    /\ windows = InitialWindows
    /\ foreground = 2
    /\ last = NoCall
    /\ pass = [t \in Threads |-> IdlePass]
    /\ config_file = ConfigSaved(known_monitors)

\* current_time - last_<duty> >= <duty>_interval
Due(duty) == loop.elapsed[duty] >= Interval(duty)

\* the loop record after an attempt of duty that raised or not; a duty that
\* returned has its last_<duty> set to current_time
Attempted(duty, raised, next_pc) ==
    [loop EXCEPT !.pc = next_pc,
                 !.elapsed[duty] = IF raised THEN @ ELSE 0,
                 !.pending = IF raised THEN @ \cup {duty} ELSE @ \ {duty}]

\* the displays change (environment)
LoopChangeMonitors ==
    /\ \E t \in {<<Monitor1V, Monitor2H>>, <<Monitor1V>>} \ {os_monitors} :
           os_monitors' = t
    /\ UNCHANGED <<known_monitors, id_counter, connected_monitors, active_layout,
                   windows, foreground, last, pass, service, layout_files, loop, config_file>>

\* stop(): the running flag is cleared; the join and the status follow
LoopStop ==
    /\ service.running
    /\ service' = [service EXCEPT !.running = FALSE, !.status = "stopping"]
    /\ UNCHANGED <<os_monitors, known_monitors, id_counter, connected_monitors,
                   active_layout, windows, foreground, last, pass, layout_files, loop,
                   config_file>>

\* the thread enters _service_loop: status "running", then the loop
LoopEnter ==
    /\ loop.pc = "begin"
    /\ loop' = [loop EXCEPT !.pc = "test"]
    /\ service' = [service EXCEPT !.status = "running",
                                  !.threads = <<"test">>]
    /\ UNCHANGED <<os_monitors, known_monitors, id_counter, connected_monitors,
                   active_layout, windows, foreground, last, pass, layout_files, config_file>>

\* "while self.running"
LoopWhile ==
    /\ loop.pc = "test"
    /\ loop' = [loop EXCEPT !.pc = IF service.running THEN "cache" ELSE "exited"]
    /\ service' = [service EXCEPT !.threads = IF service.running THEN <<"body">>
                                               ELSE <<"exited">>]
    /\ UNCHANGED <<os_monitors, known_monitors, id_counter, connected_monitors,
                   active_layout, windows, foreground, last, pass, layout_files, config_file>>

\* a duty whose interval has not elapsed is passed over
SkipDuty ==
    /\ \E i \in 1..Len(Duties) :
           /\ loop.pc = Duties[i]
           /\ ~Due(Duties[i])
           /\ loop' = [loop EXCEPT !.pc = IF i < Len(Duties) THEN Duties[i + 1]
                                          ELSE "sleep"]
    /\ UNCHANGED <<os_monitors, known_monitors, id_counter, connected_monitors,
                   active_layout, windows, foreground, last, pass, service,
                   layout_files, config_file>>

\* the window cache is refreshed
RefreshCache ==
    /\ loop.pc = "cache"
    /\ Due("cache")
    /\ loop' = Attempted("cache", FALSE, "detect")
    /\ UNCHANGED <<os_monitors, known_monitors, id_counter, connected_monitors,
                   active_layout, windows, foreground, last, pass, service,
                   layout_files, config_file>>

\* get_all_windows raises: caught by the try around the refresh and logged
RefreshCacheRaises ==
    /\ loop.pc = "cache"
    /\ Due("cache")
    /\ loop' = Attempted("cache", TRUE, "detect")
    /\ UNCHANGED <<os_monitors, known_monitors, id_counter, connected_monitors,
                   active_layout, windows, foreground, last, pass, service,
                   layout_files, config_file>>

\* detect_monitors(), status["monitors"]
DetectDuty ==
    /\ loop.pc = "detect"
    /\ Due("detect")
    /\ LET Detected(r) ==
               /\ known_monitors' = r.known
               /\ config_file' = SavedIf(Len(os_monitors) > 0, config_file, r.known)
               /\ id_counter' = r.counter
               /\ connected_monitors' = r.connected
       IN  Detected(detect_monitors(os_monitors, known_monitors, id_counter,
                                    connected_monitors))
    /\ loop' = [Attempted("detect", FALSE, "check") EXCEPT !.order = "detected"]
    /\ UNCHANGED <<os_monitors, active_layout, windows, foreground, last, pass,
                   service, layout_files>>

\* check_active_layout_validity()
CheckDuty ==
    /\ loop.pc = "check"
    /\ Due("check")
    /\ active_layout' = check_active_layout_validity(active_layout, connected_monitors,
                                                     known_monitors).active
    /\ loop' = [Attempted("check", FALSE, "apply") EXCEPT
                    !.order = IF @ = "detected" THEN "checked" ELSE @]
    /\ UNCHANGED <<os_monitors, known_monitors, id_counter, connected_monitors,
                   windows, foreground, last, pass, service, layout_files, config_file>>

\* check_active_layout_validity() raises: caught by the try around it and logged
CheckDutyRaises ==
    /\ loop.pc = "check"
    /\ Due("check")
    /\ loop' = Attempted("check", TRUE, "apply")
    /\ UNCHANGED <<os_monitors, known_monitors, id_counter, connected_monitors,
                   active_layout, windows, foreground, last, pass, service,
                   layout_files, config_file>>

\* window_manager.apply_rules(), then the status update
ApplyDuty ==
    /\ loop.pc = "apply"
    /\ Due("apply")
    /\ LET Applied(r) ==
               /\ known_monitors' = r.known
               /\ config_file' = SavedIf(Len(os_monitors) > 0, config_file, r.known)
               /\ id_counter' = r.counter
               /\ connected_monitors' = r.connected
               /\ windows' = r.D.windows
               /\ foreground' = r.D.foreground
       IN  Applied(apply_rules(Desktop, os_monitors, known_monitors, id_counter,
                               connected_monitors, active_layout))
    /\ loop' = [Attempted("apply", FALSE, "sleep") EXCEPT !.order = "none"]
    /\ service' = [service EXCEPT !.status = "running"]
    /\ UNCHANGED <<os_monitors, active_layout, last, pass, layout_files>>

\* apply_rules() raises with no try around the iteration: the exception ends
\* _service_loop
ApplyDutyRaises_uncaught ==
    /\ loop.pc = "apply"
    /\ Due("apply")
    /\ LET Detected(r) ==
               /\ known_monitors' = r.known
               /\ config_file' = SavedIf(Len(os_monitors) > 0, config_file, r.known)
               /\ id_counter' = r.counter
               /\ connected_monitors' = r.connected
       IN  Detected(detect_monitors(os_monitors, known_monitors, id_counter,
                                    connected_monitors))
    /\ loop' = Attempted("apply", TRUE, "exited")
    /\ service' = [service EXCEPT !.threads = <<"exited">>]
    /\ UNCHANGED <<os_monitors, active_layout, windows, foreground, last, pass,
                   layout_files>>

\* apply_rules() raises after its detection, while it enumerates the windows:
\* caught by the try around the iteration, status "error"
ApplyDutyRaises ==
    /\ loop.pc = "apply"
    /\ Due("apply")
    /\ LET Detected(r) ==
               /\ known_monitors' = r.known
               /\ config_file' = SavedIf(Len(os_monitors) > 0, config_file, r.known)
               /\ id_counter' = r.counter
               /\ connected_monitors' = r.connected
       IN  Detected(detect_monitors(os_monitors, known_monitors, id_counter,
                                    connected_monitors))
    /\ loop' = Attempted("apply", TRUE, "sleep")
    /\ service' = [service EXCEPT !.status = "error"]
    /\ UNCHANGED <<os_monitors, active_layout, windows, foreground, last, pass,
                   layout_files>>

\* time.sleep(check_interval), then the next reading of time.time()
Sleep ==
    /\ loop.pc = "sleep"
    /\ loop.ticks < MaxTicks
    /\ \E dt \in TickLengths :
           loop' = [loop EXCEPT
                       !.pc = "test",
                       !.ticks = @ + 1,
                       !.elapsed = [d \in DOMAIN loop.elapsed |->
                                       IF loop.elapsed[d] + dt >= Interval(d)
                                       THEN Interval(d) ELSE loop.elapsed[d] + dt]]
    /\ UNCHANGED <<os_monitors, known_monitors, id_counter, connected_monitors,
                   active_layout, windows, foreground, last, pass, service,
                   layout_files, config_file>>

\* the steps of the loop thread
LoopThread ==
    \/ LoopEnter
    \/ LoopWhile
    \/ SkipDuty
    \/ RefreshCache
    \/ RefreshCacheRaises
    \/ DetectDuty
    \/ CheckDuty
    \/ CheckDutyRaises
    \/ ApplyDuty
    \/ ApplyDutyRaises
    \/ Sleep

NextLoop ==
    \/ LoopChangeMonitors
    \/ LoopStop
    \/ LoopEnter
    \/ LoopWhile
    \/ SkipDuty
    \/ RefreshCache
    \/ RefreshCacheRaises
    \/ DetectDuty
    \/ CheckDuty
    \/ CheckDutyRaises
    \/ ApplyDuty
    \/ ApplyDutyRaises
    \/ Sleep

SpecLoop == InitLoop /\ [][NextLoop]_vars

\* the loop thread has a step to take: it is in _service_loop, and the model
\* lets it complete another iteration.  This is ENABLED <<LoopThread>>_vars:
\* at a duty, either the duty or SkipDuty is enabled.
LoopCanStep ==
    /\ loop.pc \notin {"idle", "exited"}
    /\ ~(loop.pc = "sleep" /\ loop.ticks >= MaxTicks)

\* the loop thread is scheduled: weak fairness of LoopThread, written out as
\* "infinitely often not enabled, or infinitely often taken"
SpecLoopLive == SpecLoop /\ ([]<>(~LoopCanStep) \/ []<><<LoopThread>>_vars)

\* the duties whose exception the loop catches
RaisingDuties == {"cache", "check", "apply"}

BeginsRulePass ==
    /\ loop.pc = "apply"
    /\ Due("apply")
    /\ loop'.pc = "sleep"

\* C29 as stated: every rule-application pass of the loop is preceded, since
\* the previous pass, by a monitor detection and then by a validity check of
\* the active layout.
C29_DetectCheckBeforeApply ==
    [][BeginsRulePass => loop.order = "checked"]_vars

----------------------------------------------------------------------------
(* Cancellation, over SpecSvc.                                             *)

\* thread i passes "while self.running" and begins an iteration
BeginsIteration(i) ==
    /\ service.threads[i] = "test"
    /\ service'.threads[i] = "body"

\* C24 as stated: after stop() has cleared the running flag, the loop thread
\* finishes at most its current iteration and begins no further one.  Every
\* thread but the one started last has had the flag cleared by a stop() since
\* it was started (start() starts a thread only with the flag cleared), so
\* only the thread started last begins iterations.
C24_StoppedThreadBeginsNoIteration ==
    [][\A i \in 1..Len(service.threads) :
           BeginsIteration(i) => i = Len(service.threads)]_vars

----------------------------------------------------------------------------
(* Properties of the layout lifecycle, over Spec (continued).              *)

\* the step is a call of deactivate_layout
DeactivateStep == last'.op = "deactivate_layout"

\* C25: deactivate_layout called with a layout active leaves no layout active
\* and reports success with the name of the layout it deactivated; called with
\* no layout active it changes nothing and reports failure.
C25_Deactivate ==
    [][DeactivateStep =>
          IF IsNone(active_layout)
          THEN /\ ~Val(last'.returned).success
               /\ UNCHANGED <<os_monitors, known_monitors, id_counter,
                              connected_monitors, active_layout, windows, foreground,
                              pass, service, layout_files, loop, config_file>>
          ELSE /\ active_layout' = NONE
               /\ Val(last'.returned).success
               /\ Val(last'.returned).deactivated = Some(Val(active_layout).name)]_vars

\* the layout "Docs" was active and has been deactivated
C25_Witness ==
    /\ last.op = "deactivate_layout"
    /\ ~IsNone(last.pre_active)
    /\ Val(last.pre_active).name = "Docs"
    /\ Val(last.returned).success
    /\ Val(last.returned).deactivated = Some("Docs")
    /\ active_layout = NONE

----------------------------------------------------------------------------
(* Layout validation: validate_layout, load_layout and activate_layout on  *)
(* layout files that lack a field, misspell an orientation or target an    *)
(* undeclared display.                                                     *)

\* the dict r without its key k
WithoutKey(r, k) == [x \in DOMAIN r \ {k} |-> r[x]]

\* the layout of a.json as a user may have written it
DocumentBase == LayoutFiles[<<"a">> \o DotJson].data

\* the variants of screen_requirements
DocumentScreenRequirements ==
    {TwoScreens,
     [TwoScreens EXCEPT !.total_screens = NONE],
     WithoutKey(TwoScreens, "total_screens"),
     WithoutKey(TwoScreens, "screens"),
     [TwoScreens EXCEPT !.screens = <<>>],
     [TwoScreens EXCEPT !.screens[2] = WithoutKey(@, "display_number")],
     [TwoScreens EXCEPT !.screens[2] = WithoutKey(@, "orientation")],
     [TwoScreens EXCEPT !.screens[1].orientation = "diagonal"],
     [TwoScreens EXCEPT !.screens[2].orientation = "Horizontal"],
     [TwoScreens EXCEPT !.screens[2].display_number = 3]}

\* the variants of the rules list
DocumentRules ==
    {<<>>,
     DocumentBase.rules,
     <<Rule("r1", "exe", ChromeExe, 1, FALSE, TRUE),
       Rule("r2", "window_title", TitleDoc, 2, TRUE, FALSE)>>,
     <<Rule("r1", "exe", ChromeExe, 1, FALSE, TRUE),
       Rule("r2", "window_title", TitleDoc, 3, FALSE, FALSE)>>,
     <<WithoutKey(Rule("r1", "exe", ChromeExe, 2, FALSE, TRUE), "match_type")>>,
     <<WithoutKey(Rule("r1", "exe", ChromeExe, 2, FALSE, TRUE), "match_value")>>,
     <<Rule("r1", "exe", ChromeExe, 1, FALSE, TRUE),
       WithoutKey(Rule("r2", "exe", ChromeExe, 2, FALSE, TRUE), "target_display")>>,
     <<WithoutKey(Rule("r1", "exe", ChromeExe, 2, FALSE, TRUE), "rule_id")>>}

\* the documents found in a.json
Documents ==
    {[name |-> "Coding", screen_requirements |-> sr, rules |-> rules] :
        sr \in DocumentScreenRequirements, rules \in DocumentRules}
    \cup {WithoutKey(DocumentBase, "name"),
          WithoutKey(DocumentBase, "screen_requirements"),
          WithoutKey(DocumentBase, "rules")}

\* the names load_layout is called with
LoadNames == {<<"a">>, <<"a">> \o DotJson, <<"d">>, <<"g">>}

InitValid ==
    /\ \E doc \in Documents :
           layout_files = [LayoutFiles EXCEPT ![<<"a">> \o DotJson].data = doc]
    /\ loop = IdleLoop
    /\ os_monitors = <<Monitor1V, Monitor2H>>
    /\ LET det == detect_monitors(os_monitors, <<>>, 0, <<>>)
       IN  /\ known_monitors = det.known
           /\ id_counter = det.counter
           /\ connected_monitors = det.connected
    /\ active_layout = NONE
    /\ windows = InitialWindows
    /\ foreground = 2
    /\ last = NoCall
    /\ pass = [t \in Threads |-> IdlePass]
    /\ service = StoppedService
    /\ config_file = ConfigSaved(known_monitors)

\* LayoutManager.validate_layout(layout_data) on the document of a.json
ValidateLayout ==
    /\ last' = [NoCall EXCEPT !.op = "validate_layout",
                              !.arg = layout_files[<<"a">> \o DotJson].data,
                              !.returned =
                                  Some(validate_layout(layout_files[<<"a">> \o DotJson].data))]
    /\ UNCHANGED <<os_monitors, known_monitors, id_counter, connected_monitors,
                   active_layout, windows, foreground, pass, service, layout_files,
                   loop, config_file>>

\* LayoutManager.load_layout(layout_name)
LoadLayout ==
    \E layout_name \in LoadNames :
        LET Loaded(r) ==
                /\ last' = [NoCall EXCEPT !.op = "load_layout", !.arg = layout_name,
                                          !.raised = IF r.raised THEN Some(r.error)
                                                     ELSE NONE,
                                          !.returned = IF r.raised THEN NONE
                                                       ELSE Some(r.data)]
                /\ UNCHANGED <<os_monitors, known_monitors, id_counter,
                               connected_monitors, active_layout, windows, foreground,
                               pass, service, layout_files, loop, config_file>>
        IN  Loaded(load_layout(layout_name))

NextValid ==
    \/ ValidateLayout
    \/ LoadLayout
    \/ ActivateLayout
    \/ DeactivateLayout

SpecValid == InitValid /\ [][NextValid]_vars

\* the dict r has every key of keys
HasKeys(r, keys) == keys \subseteq DOMAIN r

\* the elements of the list l
Elements(l) == {l[i] : i \in 1..Len(l)}

\* the layout has name, screen_requirements with total_screens and screens,
\* every screen with display_number and a known orientation, rules, every rule
\* with match_type, match_value and a target_display among the declared
\* display numbers
WellFormed(doc) ==
    /\ HasKeys(doc, {"name", "screen_requirements", "rules"})
    /\ HasKeys(doc.screen_requirements, {"total_screens", "screens"})
    /\ \A screen \in Elements(doc.screen_requirements.screens) :
           /\ HasKeys(screen, {"display_number", "orientation"})
           /\ screen.orientation \in {"horizontal", "vertical"}
    /\ \A rule \in Elements(doc.rules) :
           /\ HasKeys(rule, {"match_type", "match_value", "target_display"})
           /\ \E screen \in Elements(doc.screen_requirements.screens) :
                  screen.display_number = rule.target_display

\* C26: validate_layout accepts a layout iff it is well-formed; load_layout
\* returns the data of a file iff the file exists, is JSON and is well-formed,
\* and raises otherwise; the data of a layout that activate_layout has just
\* made active is well-formed.
C26_Validation ==
    /\ last.op = "validate_layout" =>
           (Val(last.returned) <=> WellFormed(last.arg))
    /\ last.op = "load_layout" =>
           LET file == FileName(last.arg)
               ok == /\ file \in DOMAIN layout_files
                     /\ layout_files[file].kind = "json"
                     /\ WellFormed(layout_files[file].data)
           IN  IF ok THEN IsNone(last.raised) /\ last.returned = Some(layout_files[file].data)
               ELSE ~IsNone(last.raised) /\ IsNone(last.returned)
    /\ ~IsNone(active_layout) => WellFormed(Val(active_layout).data)

\* a.json targets DISPLAY3, which it does not declare: activate_layout has
\* raised and no layout is active
C26_Witness ==
    /\ last.op = "activate_layout"
    /\ last.arg = <<"a">>
    /\ HasKeys(layout_files[<<"a">> \o DotJson].data,
               {"name", "screen_requirements", "rules"})
    /\ layout_files[<<"a">> \o DotJson].data.screen_requirements = TwoScreens
    /\ \E rule \in Elements(layout_files[<<"a">> \o DotJson].data.rules) :
           /\ HasKeys(rule, {"match_type", "match_value", "target_display"})
           /\ rule.target_display = 3
    /\ last.raised = Some("invalid_layout")
    /\ IsNone(active_layout)

----------------------------------------------------------------------------
(* Rule matching: find_matching_rule_for_window and the matching loop of   *)
(* apply_rules on one rule and one window descriptor.                      *)

\* x or y for two Optional str (None and "" are falsy)
OrElse(x, y) == IF IsNone(x) \/ Val(x) = <<>> THEN y ELSE x

\* layout_manager.find_matching_rule_for_window: the test of one rule
RuleCoversWindow(rule, window_data) ==
    LET match_value == Strip(rule.match_value)
        match_value_lower == Lower(match_value)
    IN  IF rule.match_type = "exe"
        THEN LET exe_name ==
                     Strip(OrEmpty(OrElse(window_data.exe_name, window_data.app_name)))
             IN  normalize_exe_name(exe_name) = normalize_exe_name(match_value_lower)
        ELSE IF rule.match_type = "window_title"
        THEN Len(match_value_lower) > 0
             /\ Contains(Lower(OrEmpty(window_data.title)), match_value_lower)
        ELSE IF rule.match_type = "process_path"
        THEN Len(match_value_lower) > 0
             /\ match_value_lower = Lower(OrEmpty(window_data.process_path))
        ELSE FALSE

\* layout_manager.find_matching_rule_for_window(window_data, rules): Optional rule
RECURSIVE find_matching_rule_for_window(_, _)
find_matching_rule_for_window(window_data, rules) ==
    IF Len(rules) = 0 THEN NONE
    ELSE IF RuleCoversWindow(rules[1], window_data) THEN Some(rules[1])
    ELSE find_matching_rule_for_window(window_data, Tail(rules))

Str_chrome == <<"c", "h", "r", "o", "m", "e">>
Str_ChromeEXE == <<"C", "h", "r", "o", "m", "e", ".", "E", "X", "E">>
Str_chromium_exe == <<"c", "h", "r", "o", "m", "i", "u", "m", ".", "e", "x", "e">>
Str_path == <<"c", ":", "\\", "a", ".", "e", "x", "e">>
Str_PATH == <<"C", ":", "\\", "A", ".", "E", "X", "E">>
Str_MyDocs == <<"M", "y", " ", "D", "o", "c", "s">>

\* the match values of the rules
MatchValues ==
    {<<>>, <<" ">>, Str_chrome, <<" ">> \o Str_chrome \o <<" ">>, ChromeExe,
     Str_ChromeEXE, Str_chromium_exe, DotExe, TitleDoc, <<"D", "O", "C">>,
     <<"y", " ", "d">>, Str_path, Str_PATH}

\* the executable names of the windows
ExeNames ==
    {NONE, Some(<<>>), Some(Str_chrome), Some(ChromeExe), Some(Str_ChromeEXE),
     Some(Str_chromium_exe), Some(DotExe)}

\* the titles of the windows
Titles == {Some(<<>>), Some(Str_MyDocs), Some(TitleDoc), Some(Str_chrome)}

\* the process paths of the windows
ProcessPaths == {NONE, Some(Str_path), Some(Str_PATH)}

\* the window descriptors
WindowDescriptors ==
    [hwnd : {1}, exe_name : ExeNames, app_name : {NONE, Some(Str_chrome)},
     title : Titles, process_path : ProcessPaths]

\* the rules
MatchRules ==
    {Rule("r1", mt, mv, 1, FALSE, FALSE) :
        mt \in {"exe", "window_title", "process_path"}, mv \in MatchValues}

\* the call to be made: a window descriptor and the rule
InitRuleMatch ==
    /\ layout_files = LayoutFiles
    /\ loop = IdleLoop
    /\ os_monitors = <<Monitor1V>>
    /\ known_monitors = <<>>
    /\ id_counter = 0
    /\ connected_monitors = <<>>
    /\ active_layout = NONE
    /\ windows = InitialWindows
    /\ foreground = 2
    /\ \E window_data \in WindowDescriptors, rule \in MatchRules :
           last = [NoCall EXCEPT !.op = "pending",
                                 !.arg = [window_data |-> window_data, rules |-> <<rule>>]]
    /\ pass = [t \in Threads |-> IdlePass]
    /\ service = StoppedService
    /\ config_file = ConfigSaved(known_monitors)

\* find_matching_rule_for_window(window_data, rules), as the rule endpoints call it
FindMatchingRule ==
    /\ last.op \in {"pending", "matching_windows"}
    /\ last' = [last EXCEPT !.op = "find_matching_rule_for_window",
                            !.returned =
                                Some(find_matching_rule_for_window(last.arg.window_data,
                                                                   last.arg.rules))]
    /\ UNCHANGED <<os_monitors, known_monitors, id_counter, connected_monitors,
                   active_layout, windows, foreground, pass, service, layout_files,
                   loop, config_file>>

\* the matching loop of apply_rules on the window list [window_data]; a window
\* of the enumeration carries no app_name
MatchWindows ==
    /\ last.op \in {"pending", "find_matching_rule_for_window"}
    /\ IsNone(last.arg.window_data.app_name)
    /\ last' = [last EXCEPT !.op = "matching_windows",
                            !.returned =
                                Some(MatchingWindows(last.arg.rules[1],
                                        <<[last.arg.window_data EXCEPT
                                              !.title = OrEmpty(@)]>>))]
    /\ UNCHANGED <<os_monitors, known_monitors, id_counter, connected_monitors,
                   active_layout, windows, foreground, pass, service, layout_files,
                   loop, config_file>>

NextRuleMatch ==
    \/ FindMatchingRule
    \/ MatchWindows

SpecRuleMatch == InitRuleMatch /\ [][NextRuleMatch]_vars

\* the rule matched the window in the call just made
Matched ==
    IF last.op = "find_matching_rule_for_window"
    THEN ~IsNone(Val(last.returned))
    ELSE Len(Val(last.returned)) > 0

\* s with a trailing .exe ensured
EnsureExe(s) == IF EndsWith(s, DotExe) THEN s ELSE s \o DotExe

\* the name of the window: exe_name, else app_name, else ""
WindowName(window_data) ==
    IF ~IsNone(window_data.exe_name) /\ Val(window_data.exe_name) # <<>>
    THEN Val(window_data.exe_name)
    ELSE IF ~IsNone(window_data.app_name) THEN Val(window_data.app_name)
    ELSE <<>>

\* the predicate as stated: equality of the lowercased names with .exe
\* ensured, substring of the lowercased title, equality of the lowercased paths
StatedMatch(rule, window_data) ==
    IF rule.match_type = "exe"
    THEN EnsureExe(Lower(rule.match_value)) = EnsureExe(Lower(WindowName(window_data)))
    ELSE IF rule.match_type = "window_title"
    THEN Contains(Lower(OrEmpty(window_data.title)), Lower(rule.match_value))
    ELSE Lower(rule.match_value) = Lower(OrEmpty(window_data.process_path))

StrippedMatch(rule, window_data) ==
    LET mv == Lower(Strip(rule.match_value))
        name == Lower(Strip(WindowName(window_data)))
    IN  IF rule.match_type = "exe"
        THEN IF mv = <<>> \/ name = <<>> THEN mv = name
             ELSE EnsureExe(mv) = EnsureExe(name)
        ELSE IF rule.match_type = "window_title"
        THEN mv # <<>> /\ Contains(Lower(OrEmpty(window_data.title)), mv)
        ELSE mv # <<>> /\ mv = Lower(OrEmpty(window_data.process_path))

----------------------------------------------------------------------------
(* Fingerprints: generate_fingerprint on two monitors, then                *)
(* fingerprints_match on the two fingerprints.                             *)

\* the monitors whose fingerprints are compared: on DISPLAY1, on DISPLAY2 and
\* without a connector label, in three resolutions, at two positions
FingerprintMonitors ==
    {[name |-> n, width |-> r[1], height |-> r[2], x |-> x, y |-> 0] :
        n \in {1, 2, NoDisplay},
        r \in {<<1920, 1080>>, <<1080, 1920>>, <<2560, 1440>>},
        x \in {0, 1920}}

InitFingerprint ==
    /\ layout_files = LayoutFiles
    /\ loop = IdleLoop
    /\ os_monitors = <<Monitor1V>>
    /\ known_monitors = <<>>
    /\ id_counter = 0
    /\ connected_monitors = <<>>
    /\ active_layout = NONE
    /\ windows = InitialWindows
    /\ foreground = 2
    /\ \E a \in FingerprintMonitors, b \in FingerprintMonitors, strict \in BOOLEAN :
           last = [NoCall EXCEPT !.op = "pending",
                                 !.arg = [a |-> a, b |-> b, strict |-> strict]]
    /\ pass = [t \in Threads |-> IdlePass]
    /\ service = StoppedService
    /\ config_file = ConfigSaved(known_monitors)

\* generate_fingerprint(a), generate_fingerprint(b)
GenerateFingerprints ==
    /\ last.op = "pending"
    /\ last' = [last EXCEPT !.op = "generate_fingerprint",
                            !.returned = Some(<<generate_fingerprint(last.arg.a),
                                                generate_fingerprint(last.arg.b)>>)]
    /\ UNCHANGED <<os_monitors, known_monitors, id_counter, connected_monitors,
                   active_layout, windows, foreground, pass, service, layout_files,
                   loop, config_file>>

\* fingerprints_match(fp1, fp2, strict) on the two fingerprints
FingerprintsMatch ==
    /\ last.op = "generate_fingerprint"
    /\ last' = [last EXCEPT !.op = "fingerprints_match",
                            !.pre_known = Val(last.returned),
                            !.returned = Some(fingerprints_match(Val(last.returned)[1],
                                                                 Val(last.returned)[2],
                                                                 last.arg.strict))]
    /\ UNCHANGED <<os_monitors, known_monitors, id_counter, connected_monitors,
                   active_layout, windows, foreground, pass, service, layout_files,
                   loop, config_file>>

NextFingerprint ==
    \/ GenerateFingerprints
    \/ FingerprintsMatch

SpecFingerprint == InitFingerprint /\ [][NextFingerprint]_vars

\* the result the comparison of fp1 and fp2 must give
ExpectedMatch(fp1, fp2, strict) ==
    CASE fp1.primary = fp2.primary -> <<TRUE, "connector_and_resolution_match">>
      [] fp1.primary # fp2.primary /\ strict -> <<FALSE, "primary_mismatch_strict">>
      [] fp1.primary # fp2.primary /\ ~strict /\ fp1.secondary = fp2.secondary ->
             <<TRUE, "resolution_match">>
      [] OTHER -> <<FALSE, "no_match">>

\* the result of fingerprints_match is the expected one, and a fingerprint
\* matches itself by its primary
MatchAsExpected ==
    last.op = "fingerprints_match" =>
        /\ <<Val(last.returned).is_match, Val(last.returned).reason>>
               = ExpectedMatch(last.pre_known[1], last.pre_known[2], last.arg.strict)
        /\ fingerprints_match(last.pre_known[1], last.pre_known[1], last.arg.strict)
               = [is_match |-> TRUE, reason |-> "connector_and_resolution_match"]

\* the two monitors have the same resolution
SameResolution ==
    /\ last.arg.a.width = last.arg.b.width
    /\ last.arg.a.height = last.arg.b.height

\* C28 as stated: fingerprints_match returns (True,
\* connector_and_resolution_match) iff the primaries are equal, else (False,
\* primary_mismatch_strict) under strict, else (True, resolution_match) iff the
\* secondaries are equal and (False, no_match) if not; two monitors with the
\* same resolution and different or absent connector labels match in
\* non-strict mode and fail in strict mode.
C28_MatchAsStated ==
    /\ MatchAsExpected
    /\ ( /\ last.op = "fingerprints_match"
         /\ SameResolution
         /\ \/ last.arg.a.name # last.arg.b.name
            \/ last.arg.a.name = NoDisplay
            \/ last.arg.b.name = NoDisplay )
       => (Val(last.returned).is_match <=> ~last.arg.strict)

\* C28: fingerprints_match returns (True, connector_and_resolution_match) iff
\* the primaries are equal, else (False, primary_mismatch_strict) under strict,
\* else (True, resolution_match) iff the secondaries are equal and (False,
\* no_match) if not; two monitors with the same resolution match in non-strict
\* mode, and fail in strict mode iff their connector labels differ or exactly
\* one of them has none (two monitors without a label have equal primaries).
C28_FingerprintsMatch ==
    /\ MatchAsExpected
    /\ (last.op = "fingerprints_match" /\ SameResolution) =>
           /\ ~last.arg.strict => Val(last.returned).is_match
           /\ last.arg.strict =>
                  (Val(last.returned).is_match <=> last.arg.a.name = last.arg.b.name)

\* DISPLAY1 and DISPLAY2 at 1920x1080 have been compared under strict: no match
C28_Witness ==
    /\ last.op = "fingerprints_match"
    /\ last.arg.strict
    /\ last.arg.a.name = 1 /\ last.arg.b.name = 2
    /\ SameResolution
    /\ last.returned = Some([is_match |-> FALSE, reason |-> "primary_mismatch_strict"])

----------------------------------------------------------------------------
(* Order of the window operations of apply_window_rule *)

\* the operations the OS calls of a call amount to, in the order performed:
\* SW_RESTORE then MoveWindow is a move, a VK_F11 key press is a toggle of
\* fullscreen, SW_MAXIMIZE a maximize, any other SW_RESTORE a restore; giving
\* the focus is no operation
RECURSIVE PerformedOperations(_)
PerformedOperations(oscalls) ==
    IF Len(oscalls) = 0 THEN <<>>
    ELSE IF oscalls[1].call = "SetForegroundWindow"
    THEN PerformedOperations(Tail(oscalls))
    ELSE IF oscalls[1].call = "SendInput"
    THEN <<"toggle">> \o PerformedOperations(Tail(oscalls))
    ELSE IF oscalls[1].call = "MoveWindow"
    THEN <<"move">> \o PerformedOperations(Tail(oscalls))
    ELSE IF oscalls[1].arg = "SW_MAXIMIZE"
    THEN <<"maximize">> \o PerformedOperations(Tail(oscalls))
    ELSE IF Len(oscalls) > 1 /\ oscalls[2].call = "MoveWindow"
    THEN <<"move">> \o PerformedOperations(Tail(Tail(oscalls)))
    ELSE <<"restore">> \o PerformedOperations(Tail(oscalls))

\* the returned operations, fullscreen and exit_fullscreen both being the toggle
ListedOperations(operations) ==
    [i \in 1..Len(operations) |->
        IF operations[i] \in {"fullscreen", "exit_fullscreen"} THEN "toggle"
        ELSE operations[i]]

\* in the list ops every a comes before every b
Precedes(ops, a, b) ==
    \A i \in 1..Len(ops), j \in 1..Len(ops) : (ops[i] = a /\ ops[j] = b) => i < j

\* apply_window_rule has returned a list of operations it performed
RuleActed ==
    /\ last.op = "apply_window_rule"
    /\ ~IsNone(last.returned)
    /\ Val(last.returned).changed

\* C30: in every apply_window_rule call the move precedes every chrome-state
\* operation; with fullscreen wanted the maximize precedes the fullscreen
\* toggle; with maximize only wanted on a fullscreen window the exit-fullscreen
\* toggle precedes the maximize; with normal wanted the exit-fullscreen toggle
\* precedes the restore; the returned operations list names the operations
\* performed, in the order performed, and no operation performed is missing
\* from it.
C30_OperationOrder ==
    RuleActed =>
        LET performed == PerformedOperations(last.oscalls)
            operations == Val(last.returned).operations
        IN  /\ \A op \in {"maximize", "toggle", "restore"} : Precedes(performed, "move", op)
            /\ last.arg.fullscreen => Precedes(performed, "maximize", "toggle")
            /\ (~last.arg.fullscreen /\ last.arg.maximize) =>
                   Precedes(operations, "exit_fullscreen", "maximize")
            /\ (~last.arg.fullscreen /\ ~last.arg.maximize) =>
                   Precedes(operations, "exit_fullscreen", "restore")
            /\ performed = ListedOperations(operations)

----------------------------------------------------------------------------
(* The toggle key and the input focus *)

\* C31: the toggle key is injected only while the target window holds the
\* input focus: every VK_F11 key press of an apply_window_rule call goes to
\* the window the rule is applied to.
C31_ToggleOnlyWithFocus ==
    \A i \in 1..Len(last.oscalls) :
        (last.op = "apply_window_rule" /\ last.oscalls[i].call = "SendInput") =>
            last.oscalls[i].hwnd = last.arg.hwnd

----------------------------------------------------------------------------
(* Rules with an empty match_value *)

\* C40: a rule whose match_value is empty or whitespace-only matches no
\* window, whatever its match_type, in find_matching_rule_for_window and in
\* the matching loop of apply_rules alike.
C40_EmptyValueMatchesNothing ==
    ( /\ last.op \in {"find_matching_rule_for_window", "matching_windows"}
      /\ Strip(last.arg.rules[1].match_value) = <<>> )
    => ~Matched

----------------------------------------------------------------------------
(* Fullscreen detection on the 32-bit style word.  A style is the Python    *)
(* int GetWindowLong returned, written hi * 65536 + lo with lo in 0..65535: *)
(* hi is negative when the LONG is read signed with bit 31 set, and in      *)
(* 32768..65535 when the same word is read unsigned.                        *)

HalfWord == 65536

\* style & mask for a style of 32 bits and a mask below 2^31
StyleAnd(style, mask) ==
    [hi |-> BitAnd(style.hi, mask \div HalfWord), lo |-> BitAnd(style.lo, mask % HalfWord)]

\* bool(style & mask)
StyleHas(style, mask) ==
    StyleAnd(style, mask).hi # 0 \/ StyleAnd(style, mask).lo # 0

\* the body of is_window_fullscreen that also wants WS_POPUP (bit 31) set
style_is_fullscreen_popup(style) ==
    LET unsigned == IF style.hi < 0 THEN [style EXCEPT !.hi = @ + HalfWord] ELSE style
        has_popup == unsigned.hi >= HalfWord \div 2
        has_caption == StyleHas(unsigned, WS_CAPTION)
        has_border == StyleHas(unsigned, WS_THICKFRAME)
    IN  has_popup /\ ~has_caption /\ ~has_border

\* the body of is_window_fullscreen on the style read:
\* if style < 0: style = style & 0xFFFFFFFF; not has_caption and not has_border
style_is_fullscreen(style) ==
    LET unsigned == IF style.hi < 0 THEN [style EXCEPT !.hi = @ + HalfWord] ELSE style
        has_caption == StyleHas(unsigned, WS_CAPTION)
        has_border == StyleHas(unsigned, WS_THICKFRAME)
    IN  ~has_caption /\ ~has_border

\* the style n (below 2^31) as GetWindowLong returns it
StyleOf(n) == [hi |-> n \div HalfWord, lo |-> n % HalfWord]

\* the styles read: the fullscreen example 0x170B0000 with every choice of the
\* two caption bits, the border bit, the popup bit, the minimize and maximize
\* box bits and the low word; a style with the popup bit is read signed or
\* unsigned
StyleReadings ==
    {[hi |-> StyleOf(StyleFullscreen).hi - 3 + caption + border + boxes + popup, lo |-> lo] :
        caption \in {0, 64, 128, 192}, border \in {0, 4}, boxes \in {0, 1, 2, 3},
        popup \in {0, HalfWord \div 2, 0 - HalfWord \div 2}, lo \in {0, 1}}

InitStyle ==
    /\ layout_files = LayoutFiles
    /\ loop = IdleLoop
    /\ os_monitors = <<Monitor1V>>
    /\ known_monitors = <<>>
    /\ id_counter = 0
    /\ connected_monitors = <<>>
    /\ active_layout = NONE
    /\ windows = InitialWindows
    /\ foreground = 2
    /\ \E style \in StyleReadings :
           last = [NoCall EXCEPT !.op = "GetWindowLong", !.arg = style]
    /\ pass = [t \in Threads |-> IdlePass]
    /\ service = StoppedService
    /\ config_file = ConfigSaved(known_monitors)

\* is_window_fullscreen(hwnd) on a window of the style read
IsWindowFullscreen ==
    /\ last.op = "GetWindowLong"
    /\ last' = [last EXCEPT !.op = "is_window_fullscreen",
                            !.returned = Some(style_is_fullscreen(last.arg))]
    /\ UNCHANGED <<os_monitors, known_monitors, id_counter, connected_monitors,
                   active_layout, windows, foreground, pass, service, layout_files,
                   loop, config_file>>

NextStyle == IsWindowFullscreen

SpecStyle == InitStyle /\ [][NextStyle]_vars

\* bit n (16..31) of the 32-bit word of the style
StyleBit(style, n) ==
    (((style.hi + HalfWord) % HalfWord) \div (2 ^ (n - 16))) % 2

\* the style with every bit other than the caption and border bits cleared
ChromeBitsOnly(style) ==
    [hi |-> 128 * StyleBit(style, 23) + 64 * StyleBit(style, 22) + 4 * StyleBit(style, 18),
     lo |-> 0]

\* the same 32-bit word in the other reading (signed or unsigned)
OtherReading(style) ==
    IF style.hi < 0 THEN [style EXCEPT !.hi = @ + HalfWord]
    ELSE IF style.hi >= HalfWord \div 2 THEN [style EXCEPT !.hi = @ - HalfWord]
    ELSE style

\* C33: is_window_fullscreen returns true iff bits 22 and 23 (WS_CAPTION) and
\* bit 18 (WS_THICKFRAME) of the style are all clear; the answer depends on
\* these bits alone and is the same for the signed and the unsigned reading of
\* the word; 0x17CF0000 is not fullscreen and 0x170B0000 is.
C33_FullscreenByStyleBits ==
    last.op = "is_window_fullscreen" =>
        /\ Val(last.returned) <=>
               (StyleBit(last.arg, 23) = 0 /\ StyleBit(last.arg, 22) = 0
                /\ StyleBit(last.arg, 18) = 0)
        /\ Val(last.returned) = style_is_fullscreen(ChromeBitsOnly(last.arg))
        /\ Val(last.returned) = style_is_fullscreen(OtherReading(last.arg))
        /\ ~style_is_fullscreen(StyleOf(StyleNormal))
        /\ style_is_fullscreen(StyleOf(StyleNormal - WS_CAPTION - WS_THICKFRAME))

\* a style with the popup bit set, read as a negative value, without caption
\* and border, has been found fullscreen
C33_Witness ==
    /\ last.op = "is_window_fullscreen"
    /\ last.arg.hi < 0
    /\ StyleBit(last.arg, 31) = 1
    /\ StyleBit(last.arg, 16) = 1
    /\ last.returned = Some(TRUE)

----------------------------------------------------------------------------
(* The configuration document and its file: detection passes and the        *)
(* monitor listing with connection status, while displays come and go.      *)

\* the file after the add_monitor calls of a detection pass, each ending in
\* save_config, and the number of times the file was written
RECURSIVE DetectWrites(_, _, _, _)
DetectWrites(monitors, known, counter, file) ==
    IF Len(monitors) = 0 THEN [file |-> file, writes |-> 0]
    ELSE LET Saved(r, saved) ==
                 LET Rest(rest) ==
                         [file |-> rest.file,
                          writes |-> rest.writes + (IF saved.wrote THEN 1 ELSE 0)]
                 IN  Rest(DetectWrites(Tail(monitors), r.known, r.counter, saved.file))
             Added(r) == Saved(r, save_config(file, r.known))
         IN  Added(add_monitor(known, counter, monitors[1]))

\* the displays the most recent detection pass observed
Observed == IF last.op = "none" THEN NONE ELSE Some(last.arg.observed)

\* the record of a call that ran a detection pass and wrote the file n times
DetectionRecord(op, n) ==
    [NoCall EXCEPT !.op = op,
                   !.arg = [observed |-> os_monitors, previous |-> Observed],
                   !.pre_known = known_monitors,
                   !.calls = [i \in 1..n |-> "write"]]

\* a display is attached, detached or replaced
ConfigChangeDisplays ==
    /\ \E t \in DisplaySetups \ {os_monitors} : os_monitors' = t
    /\ UNCHANGED <<known_monitors, id_counter, connected_monitors, active_layout,
                   windows, foreground, last, pass, service, layout_files, loop,
                   config_file>>

\* MonitorManager.detect_monitors(), every add_monitor saving the document
DetectPass ==
    /\ id_counter + Len(os_monitors) <= MaxIds
    /\ LET Detected(r, w) ==
               /\ known_monitors' = r.known
               /\ id_counter' = r.counter
               /\ connected_monitors' = r.connected
               /\ config_file' = w.file
               /\ last' = DetectionRecord("detect_monitors", w.writes)
       IN  Detected(detect_monitors(os_monitors, known_monitors, id_counter,
                                    connected_monitors),
                    DetectWrites(os_monitors, known_monitors, id_counter, config_file))
    /\ UNCHANGED <<os_monitors, active_layout, windows, foreground, pass, service,
                   layout_files, loop>>

\* monitor["connected"] = monitor["id"] in connected_ids, for every monitor
\* of the list get_all_monitors returns (the list of the document itself)
WithStatus(known, connected) ==
    [i \in 1..Len(known) |->
        [k \in DOMAIN known[i] \cup {"connected"} |->
            IF k = "connected" THEN is_monitor_connected(connected, known[i].id)
            ELSE known[i][k]]]

\* ScreenAssignService.get_monitors_with_status()
GetMonitorsWithStatus ==
    /\ id_counter + Len(os_monitors) <= MaxIds
    /\ LET Listed(r, w) ==
               /\ known_monitors' = WithStatus(r.known, r.connected)
               /\ id_counter' = r.counter
               /\ connected_monitors' = r.connected
               /\ config_file' = w.file
               /\ last' = [DetectionRecord("get_monitors_with_status", w.writes)
                              EXCEPT !.returned = Some(WithStatus(r.known, r.connected))]
       IN  Listed(detect_monitors(os_monitors, known_monitors, id_counter,
                                  connected_monitors),
                  DetectWrites(os_monitors, known_monitors, id_counter, config_file))
    /\ UNCHANGED <<os_monitors, active_layout, windows, foreground, pass, service,
                   layout_files, loop>>

NextConfig ==
    \/ ConfigChangeDisplays
    \/ DetectPass
    \/ GetMonitorsWithStatus

SpecConfig == InitMon /\ [][NextConfig]_vars

\* C32: a detection pass that observes the displays the previous pass observed
\* writes the configuration file not once; after a detection pass that saved,
\* the file and the snapshot hold the document in memory.
C32_NoOpWriteSuppression ==
    /\ ( /\ last.op = "detect_monitors"
         /\ last.arg.previous = Some(last.arg.observed) )
       => last.calls = <<>>
    /\ (last.op = "detect_monitors" /\ Len(last.arg.observed) > 0)
       => config_file = ConfigSaved(known_monitors)

\* some record of the list carries a connected field
HasConnectedField(monitors) ==
    \E i \in 1..Len(monitors) : "connected" \in DOMAIN monitors[i]

\* C38: the connection status lives in memory only: get_monitors_with_status
\* leaves the configuration document as it was, and the file never holds a
\* connected field.
C38_StatusInMemoryOnly ==
    /\ ~HasConnectedField(known_monitors)
    /\ ~HasConnectedField(config_file.disk)

----------------------------------------------------------------------------
(* The service: default layout and reported status, over SpecSvc.          *)

\* the displays attached to the machine satisfy the requirements of the layout
AttachedDisplaysSatisfy(layout_name) ==
    LET Satisfies(det) ==
            can_apply_layout(load_layout(layout_name).data, det.connected,
                             det.known).matches
    IN  Satisfies(detect_monitors(os_monitors, known_monitors, id_counter,
                                  connected_monitors))

\* C37: when the settings name a default layout whose requirements the
\* attached displays satisfy, that layout is active once start() has returned.
C37_DefaultLayoutActive ==
    ( /\ last.op = "start"
      /\ last.returned = Some(TRUE)
      /\ ~IsNone(last.arg)
      /\ AttachedDisplaysSatisfy(Val(last.arg)) )
    => ~IsNone(active_layout)

\* C39: once stop() has returned the status is "stopped" and stays so until
\* the next start(): a step from a stopped service leaves the status "stopped"
\* unless it is start() marking the service running.
C39_StoppedStaysStopped ==
    [][(service.status = "stopped" /\ service.caller = "idle")
          => (service'.status = "stopped" \/ service'.running)]_vars

----------------------------------------------------------------------------
(* activate_layout taken in its two reads of the screen configuration: the  *)
(* API thread checks the requirements against one reading and builds the    *)
(* display map from a second one, while the service thread may detect the   *)
(* monitors in between.  pass["api"] holds the frame of the activating      *)
(* thread between the two reads.                                            *)

\* activate_layout up to and including "can_apply, reason = self.can_apply_layout(...)"
ActivateCheck ==
    /\ pass["api"].pc = "idle"
    /\ \E layout_name \in LayoutNames :
           LET Checked(loaded) ==
                   IF ~IsNone(active_layout)
                   THEN /\ pass' = pass
                        /\ last' = [NoCall EXCEPT
                                       !.op = "activate_layout", !.arg = layout_name,
                                       !.pre_active = active_layout,
                                       !.returned = Some([success |-> FALSE,
                                                          message |-> "already_active"])]
                   ELSE IF loaded.raised
                   THEN /\ pass' = pass
                        /\ last' = [NoCall EXCEPT
                                       !.op = "activate_layout", !.arg = layout_name,
                                       !.pre_active = active_layout,
                                       !.raised = Some(loaded.error)]
                   ELSE IF ~can_apply_layout(loaded.data, connected_monitors,
                                             known_monitors).matches
                   THEN /\ pass' = pass
                        /\ last' = [NoCall EXCEPT
                                       !.op = "activate_layout", !.arg = layout_name,
                                       !.pre_active = active_layout,
                                       !.raised = Some("requirements")]
                   ELSE /\ pass' = [pass EXCEPT !["api"] =
                                       [pc |-> "can_apply", layout_name |-> layout_name,
                                        layout_data |-> loaded.data]]
                        /\ last' = last
           IN  Checked(load_layout(layout_name))
    /\ UNCHANGED <<os_monitors, known_monitors, id_counter, connected_monitors,
                   active_layout, windows, foreground, service, layout_files, loop,
                   config_file>>

\* activate_layout from "screen_config = self.matcher.get_screen_configuration()" on
ActivateBuild ==
    /\ pass["api"].pc = "can_apply"
    /\ \E now \in 1..MaxClock :
           /\ active_layout' =
                  Some([name |-> pass["api"].layout_data.name,
                        file_name |-> FileName(pass["api"].layout_name),
                        data |-> pass["api"].layout_data,
                        display_map |->
                            build_display_map(
                                get_screen_configuration(connected_monitors,
                                                         known_monitors)),
                        activated_at |-> now])
           /\ last' = [NoCall EXCEPT
                          !.op = "activate_layout", !.arg = pass["api"].layout_name,
                          !.pre_active = active_layout,
                          !.returned = Some([success |-> TRUE, message |-> "activated"])]
    /\ pass' = [pass EXCEPT !["api"] = IdlePass]
    /\ UNCHANGED <<os_monitors, known_monitors, id_counter, connected_monitors,
                   windows, foreground, service, layout_files, loop, config_file>>

NextActivate ==
    \/ ChangeMonitors
    \/ DetectMonitors
    \/ ActivateCheck
    \/ ActivateBuild
    \/ DeactivateLayout

SpecActivate == Init /\ [][NextActivate]_vars

\* the display numbers the screen requirements of a layout list
RequiredDisplays(layout_data) ==
    {layout_data.screen_requirements.screens[i].display_number :
        i \in 1..Len(layout_data.screen_requirements.screens)}

\* C34: immediately after a successful activate_layout the stored display_map
\* has an entry for every display_number the layout requires.
C34_DisplayMapCoversRequirements ==
    ( /\ last.op = "activate_layout"
      /\ ~IsNone(last.returned)
      /\ Val(last.returned).success )
    => RequiredDisplays(Val(active_layout).data)
           \subseteq DOMAIN Val(active_layout).display_map

----------------------------------------------------------------------------
(* apply_window_rule taken one read at a time.  Two passes (the loop's and  *)
(* an on-demand one) apply the same rule to window 1 while the user may     *)
(* change the window once; nothing serialises them.  pass[t] holds the      *)
(* frame of thread t inside apply_window_rule:                              *)
(*   "checked"  is_window_in_correct_state has answered False               *)
(*   "moved"    needs_move is read and the move, if any, is done            *)
(*   "read"     current_fullscreen and current_maximized are read           *)
(*   "returned" the call has returned the result kept in the frame          *)

\* the target monitors of the rule: the known ids and one id that is not known
RuleArguments ==
    {[hwnd |-> 1, monitor_id |-> monitor_id, maximize |-> maximize,
      fullscreen |-> fullscreen] :
        monitor_id \in 1..(id_counter + 1), maximize \in BOOLEAN,
        fullscreen \in BOOLEAN}

\* Scenarios A, C and the normal branch of apply_window_rule, deciding on the
\* values of current_fullscreen and current_maximized read before
ApplyScenario(D, arg, needs_move, current_fullscreen, current_maximized, ops) ==
    LET exited == IF current_fullscreen THEN fullscreen_window(D, arg.hwnd) ELSE D
        ops1 == IF current_fullscreen THEN ops \o <<"exit_fullscreen">> ELSE ops
    IN  IF arg.fullscreen
        THEN IF current_fullscreen THEN [D |-> D, operations |-> ops]
             ELSE IF ~current_maximized
             THEN [D |-> fullscreen_window(maximize_window(D, arg.hwnd), arg.hwnd),
                   operations |-> ops \o <<"maximize", "fullscreen">>]
             ELSE [D |-> fullscreen_window(D, arg.hwnd),
                   operations |-> ops \o <<"fullscreen">>]
        ELSE IF arg.maximize
        THEN IF ~current_maximized \/ current_fullscreen
             THEN [D |-> maximize_window(exited, arg.hwnd),
                   operations |-> ops1 \o <<"maximize">>]
             ELSE [D |-> exited, operations |-> ops1]
        ELSE IF current_maximized /\ ~needs_move
        THEN [D |-> ShowWindow(exited, arg.hwnd, "SW_RESTORE"),
              operations |-> ops1 \o <<"restore">>]
        ELSE [D |-> exited, operations |-> ops1]

\* the frame of a call that has returned
ReturnedFrame(arg, entry_windows, changed, operations, raised) ==
    [pc |-> "returned", arg |-> arg, entry_windows |-> entry_windows,
     changed |-> changed, operations |-> operations, raised |-> raised]

\* thread t enters apply_window_rule with the rule the other pass applies too:
\* the monitor is looked up and the correct-state check is made
RuleBegin(t) ==
    /\ pass[t].pc = "idle"
    /\ \E arg \in RuleArguments :
           /\ \A u \in Threads : pass[u].pc # "idle" => pass[u].arg = arg
           /\ pass' = [pass EXCEPT ![t] =
                  IF \/ IsNone(get_connected_monitor(connected_monitors, arg.monitor_id))
                     \/ is_window_in_correct_state(Desktop, connected_monitors, arg.hwnd,
                                                   arg.monitor_id, arg.maximize,
                                                   arg.fullscreen)
                  THEN ReturnedFrame(arg, windows, FALSE, <<>>, FALSE)
                  ELSE [pc |-> "checked", arg |-> arg, entry_windows |-> windows]]
    /\ UNCHANGED <<os_monitors, known_monitors, id_counter, connected_monitors,
                   active_layout, windows, foreground, last, service, layout_files,
                   loop, config_file>>

\* "needs_move = not self.is_window_on_monitor(hwnd, monitor_id)" and the move
RuleMove(t) ==
    /\ pass[t].pc = "checked"
    /\ LET arg == pass[t].arg
           monitor == Val(get_connected_monitor(connected_monitors, arg.monitor_id))
           needs_move == ~is_window_on_monitor(Desktop, connected_monitors, arg.hwnd,
                                               arg.monitor_id)
           Moved(D) ==
               /\ windows' = D.windows
               /\ foreground' = D.foreground
               /\ pass' = [pass EXCEPT ![t] =
                      IF needs_move /\ MoveWindowRaises(Desktop, arg.hwnd)
                      THEN ReturnedFrame(arg, pass[t].entry_windows, FALSE, <<>>, TRUE)
                      ELSE [pc |-> "moved", arg |-> arg,
                            entry_windows |-> pass[t].entry_windows,
                            needs_move |-> needs_move,
                            operations |-> IF needs_move THEN <<"move">> ELSE <<>>]]
       IN  Moved(IF needs_move THEN move_window(Desktop, arg.hwnd, monitor) ELSE Desktop)
    /\ UNCHANGED <<os_monitors, known_monitors, id_counter, connected_monitors,
                   active_layout, last, service, layout_files, loop, config_file>>

\* "current_fullscreen = ...; current_maximized = ..."
RuleRead(t) ==
    /\ pass[t].pc = "moved"
    /\ pass' = [pass EXCEPT ![t] =
           [pc |-> "read", arg |-> pass[t].arg,
            entry_windows |-> pass[t].entry_windows,
            needs_move |-> pass[t].needs_move,
            operations |-> pass[t].operations,
            current_fullscreen |-> is_window_fullscreen(Desktop, pass[t].arg.hwnd),
            current_maximized |-> is_window_maximized(Desktop, pass[t].arg.hwnd)]]
    /\ UNCHANGED <<os_monitors, known_monitors, id_counter, connected_monitors,
                   active_layout, windows, foreground, last, service, layout_files,
                   loop, config_file>>

\* the scenario of the rule is carried out and the result returned
RuleAct(t) ==
    /\ pass[t].pc = "read"
    /\ LET Acted(r) ==
               /\ windows' = r.D.windows
               /\ foreground' = r.D.foreground
               /\ pass' = [pass EXCEPT ![t] =
                      ReturnedFrame(pass[t].arg, pass[t].entry_windows, TRUE,
                                    r.operations, FALSE)]
       IN  Acted(ApplyScenario(Desktop, pass[t].arg, pass[t].needs_move,
                               pass[t].current_fullscreen, pass[t].current_maximized,
                               pass[t].operations))
    /\ UNCHANGED <<os_monitors, known_monitors, id_counter, connected_monitors,
                   active_layout, last, service, layout_files, loop, config_file>>

\* what the user may do to a window: drag it to the other display, press
\* the fullscreen key of the application, maximize or restore it
UserChanges(w) ==
    {[w EXCEPT !.rect = IF w.rect = RectOnDisplay1 THEN RectOnDisplay2
                        ELSE RectOnDisplay1],
     [w EXCEPT !.style = ToggledStyle(w.style)],
     [w EXCEPT !.show = IF w.show = "maximized" THEN "normal" ELSE "maximized"]}

\* the user changes window 1, once
UserChangesWindow ==
    /\ last.op = "none"
    /\ \E w \in UserChanges(windows[1]) : windows' = [windows EXCEPT ![1] = w]
    /\ last' = [NoCall EXCEPT !.op = "user_change", !.pre_windows = windows]
    /\ UNCHANGED <<os_monitors, known_monitors, id_counter, connected_monitors,
                   active_layout, foreground, pass, service, layout_files, loop,
                   config_file>>

InitRace ==
    /\ layout_files = LayoutFiles
    /\ loop = IdleLoop
    /\ os_monitors = <<Monitor1V, Monitor2H>>
    /\ LET det == detect_monitors(os_monitors, <<>>, 0, <<>>)
       IN  /\ known_monitors = det.known
           /\ id_counter = det.counter
           /\ connected_monitors = det.connected
    /\ active_layout = NONE
    /\ windows \in {[InitialWindows EXCEPT ![1].show = s.show, ![1].style = s.style,
                                           ![1].rect = s.rect] : s \in WindowShapes}
    /\ foreground = 2
    /\ last = NoCall
    /\ pass = [t \in Threads |-> IdlePass]
    /\ service = StoppedService
    /\ config_file = ConfigSaved(known_monitors)

NextRace ==
    \/ \E t \in Threads : RuleBegin(t) \/ RuleMove(t) \/ RuleRead(t) \/ RuleAct(t)
    \/ UserChangesWindow

SpecRace == InitRace /\ [][NextRace]_vars

\* the threads whose call of apply_window_rule has returned
Returned == {t \in Threads : pass[t].pc = "returned"}

\* C36: every result of apply_window_rule has changed = (operations non-empty).
C36_ChangedIffOperations ==
    \A t \in Returned :
        ~pass[t].raised => (pass[t].changed <=> Len(pass[t].operations) > 0)

\* both passes have applied one fullscreen rule for a connected monitor to a
\* window that was not fullscreen when each of them began, the user has left
\* the window alone, and the window takes the focus and honours the key
TwoFullscreenPasses ==
    /\ Returned = Threads
    /\ last.op = "none"
    /\ \A t \in Threads :
           /\ pass[t].arg.fullscreen
           /\ ~IsNone(get_connected_monitor(connected_monitors, pass[t].arg.monitor_id))
           /\ ~is_window_fullscreen([windows |-> pass[t].entry_windows,
                                     foreground |-> foreground, oscalls |-> <<>>],
                                    pass[t].arg.hwnd)
    /\ windows[1].f11 /\ windows[1].focusable

\* C35: once two passes applying the same fullscreen rule to the same
\* non-fullscreen window have both finished, the window is fullscreen.
C35_FullscreenAfterBothPasses ==
    TwoFullscreenPasses => is_window_fullscreen(Desktop, 1)

====
